---- MODULE Spec2Model ----
(***************************************************************************)
(* Model of the mock-interview practice tool (Streamlit application).      *)
(*                                                                         *)
(* One browser session is modelled in full.  Its state is the Streamlit    *)
(* session store (ss), the URL query parameters (qp), the wall clock (now) *)
(* and the process environment (env_key).  Three further variables hold    *)
(* the parts studied on their own: a call of generate_question (call), the *)
(* module globals shared with a second session (process) and the script of *)
(* the hosting page (dom).  Every action is one complete run of the *)
(* script main() of streamlit_app.py, started by one widget event, up to   *)
(* the point where the run ends: the end of the script, st.rerun() or      *)
(* st.stop().  A run ended by st.rerun() leaves view = "pending", and the  *)
(* only action enabled then is the event-less run Rerun.                   *)
(***************************************************************************)
EXTENDS Integers, Sequences, FiniteSets, TLC

VARIABLES
    ss,         \* st.session_state: a function from the keys present to their values
    qp,         \* st.query_params: a function from the keys present to their values
    now,        \* time.time(), in ticks of 1/TicksPerSecond seconds
    clockSteps, \* how many times the clock has moved (bounded by MaxClockSteps)
    env_key,    \* os.getenv("GOOGLE_API_KEY"), "" when unset
    view,       \* what the last run left on screen
    run,        \* what the last run did: its generate_question calls, its message, its countdown
    call,       \* one call of generate_question in detail: its arguments, the response, its outcome
    process,    \* what all sessions of the server process share, and the store of a second session
    dom         \* the hosting page in the browser: the answer field and its message listener

vars == <<ss, qp, now, clockSteps, env_key, view, run, call, process, dom>>

(***************************************************************************)
(* Bounds of the model and constants of the program.                       *)
(***************************************************************************)
MaxClockSteps == 2
MaxAnswers == 1
TicksPerSecond == 2
NumQuestions == 5
CodingSeconds == 900
BeginnerSeconds == 180
ProfessionalSeconds == 300

\* Input sets: what the user can type or pick, what the remote model can answer.
RoleTexts == {"", "Software Engineer", "Data Engineer", "Nurse"}
CompanyTexts == {"", "Acme"}
KeyTexts == {"good", "bad"}
EnvKeys == {"", "good"}
RoundChoices == {"Warm Up", "Coding"}
DifficultyChoices == {"Beginner", "Professional"}
AnswerTexts == {"", "a"}
ReplyStreams == { <<"qa", "qb", "qc", "qd", "qe">> }
FailKinds == {"remote_exception", "empty_response"}
UrlKeys == {"page", "round", "difficulty"}
UrlChoices ==
    { u \in UNION { [K -> {"practice", "other", "Warm Up", "coding", "Beginner"}] : K \in SUBSET UrlKeys } :
        /\ "page" \in DOMAIN u => u["page"] \in {"practice", "other"}
        /\ "round" \in DOMAIN u => "page" \in DOMAIN u /\ u["round"] \in {"Warm Up", "coding"}
        /\ "difficulty" \in DOMAIN u => "round" \in DOMAIN u /\ u["difficulty"] = "Beginner" }

(***************************************************************************)
(* Python dictionaries: dict.get, assignment, update, pop.                 *)
(***************************************************************************)
EmptyDict == [x \in {} |-> 0]

Has(d, k) == k \in DOMAIN d

Get(d, k, default) == IF k \in DOMAIN d THEN d[k] ELSE default

Put(d, k, v) == [x \in (DOMAIN d) \cup {k} |-> IF x = k THEN v ELSE d[x]]

Update(d, e) == [x \in (DOMAIN d) \cup (DOMAIN e) |-> IF x \in DOMAIN e THEN e[x] ELSE d[x]]

PopAll(d, keys) == [x \in (DOMAIN d) \ keys |-> d[x]]

SetDefault(d, k, v) == IF k \in DOMAIN d THEN d ELSE Put(d, k, v)

\* f"answer_input_{idx}" for idx in 0 .. NumQuestions - 1
AnswerWidgetKeys ==
    <<"answer_input_0", "answer_input_1", "answer_input_2", "answer_input_3", "answer_input_4">>

widget_key(idx) == AnswerWidgetKeys[idx + 1]

\* Streamlit drops the state of a keyed widget that a run did not render.
DropStaleWidgets(s, rendered) ==
    PopAll(s, {AnswerWidgetKeys[i] : i \in 1..Len(AnswerWidgetKeys)} \ rendered)

Min(a, b) == IF a < b THEN a ELSE b

Max(a, b) == IF a > b THEN a ELSE b

\* Python int() on a float number of seconds given in ticks: truncation towards zero.
int(ticks) == IF ticks >= 0 THEN ticks \div TicksPerSecond ELSE -((-ticks) \div TicksPerSecond)

\* str.lower() on the strings of the model
lower(str) ==
    CASE str = "Coding" -> "coding"
      [] str = "Warm Up" -> "warm up"
      [] str = "Beginner" -> "beginner"
      [] str = "Professional" -> "professional"
      [] str = "Software Engineer" -> "software engineer"
      [] str = "Data Engineer" -> "data engineer"
      [] str = "Nurse" -> "nurse"
      [] OTHER -> str

(***************************************************************************)
(* interview_flow.py                                                       *)
(***************************************************************************)
\* Two faulty variants of handle_practice_navigation, which the properties of C1 and
\* C2 must tell from it: one reports the practice page for every `page` parameter,
\* one leaves the company out of the query parameters.
handle_practice_navigation_AnyPage(s, q) ==
    IF Get(s, "start_practice", FALSE)
    THEN LET params == [page |-> "practice",
                        round |-> Get(s, "round_radio", "Coding"),
                        difficulty |-> Get(s, "difficulty_radio", "Professional"),
                        role |-> Get(s, "role", "Software Engineer"),
                        company |-> Get(s, "company", "")]
         IN [ss |-> Put(s, "start_practice", FALSE), qp |-> Update(q, params), result |-> "rerun"]
    ELSE [ss |-> s, qp |-> q, result |-> IF Has(q, "page") THEN "practice" ELSE "setup"]

handle_practice_navigation_NoCompany(s, q) ==
    IF Get(s, "start_practice", FALSE)
    THEN LET params == [page |-> "practice",
                        round |-> Get(s, "round_radio", "Coding"),
                        difficulty |-> Get(s, "difficulty_radio", "Professional"),
                        role |-> Get(s, "role", "Software Engineer")]
         IN [ss |-> Put(s, "start_practice", FALSE), qp |-> Update(q, params), result |-> "rerun"]
    ELSE [ss |-> s, qp |-> q,
          result |-> IF Has(q, "page") /\ q["page"] = "practice" THEN "practice" ELSE "setup"]

\* The result is "rerun" when st.rerun() ends the run before the return statement.
handle_practice_navigation(s, q) ==
    IF Get(s, "start_practice", FALSE)
    THEN LET params == [page |-> "practice",
                        round |-> Get(s, "round_radio", "Coding"),
                        difficulty |-> Get(s, "difficulty_radio", "Professional"),
                        role |-> Get(s, "role", "Software Engineer"),
                        company |-> Get(s, "company", "")]
         IN [ss |-> Put(s, "start_practice", FALSE), qp |-> Update(q, params), result |-> "rerun"]
    ELSE [ss |-> s, qp |-> q,
          result |-> IF Has(q, "page") /\ q["page"] = "practice" THEN "practice" ELSE "setup"]

(***************************************************************************)
(* llm_utils.py                                                            *)
(***************************************************************************)
\* Python's str methods, on the strings of TLA+.
startswith(str, prefix) == Len(prefix) <= Len(str) /\ SubSeq(str, 1, Len(prefix)) = prefix

endswith(str, suffix) ==
    Len(suffix) <= Len(str) /\ SubSeq(str, Len(str) - Len(suffix) + 1, Len(str)) = suffix

\* `needle in str`
contains(needle, str) ==
    \E i \in 1..(Len(str) - Len(needle) + 1) : SubSeq(str, i, i + Len(needle) - 1) = needle

RECURSIVE lstrip(_)
lstrip(str) == IF str # "" /\ Head(str) = " " THEN lstrip(Tail(str)) ELSE str

RECURSIVE rstrip(_)
rstrip(str) ==
    IF str # "" /\ SubSeq(str, Len(str), Len(str)) = " "
    THEN rstrip(SubSeq(str, 1, Len(str) - 1))
    ELSE str

strip(str) == rstrip(lstrip(str))

LowerLetters == "abcdefghijklmnopqrstuvwxyz"
UpperLetters == "ABCDEFGHIJKLMNOPQRSTUVWXYZ"

\* One character of `to` for the same place in `from`, any other character as it is.
MapChar(c, from, to) ==
    IF \E i \in 1..Len(from) : SubSeq(from, i, i) = c
    THEN LET i == CHOOSE i \in 1..Len(from) : SubSeq(from, i, i) = c IN SubSeq(to, i, i)
    ELSE c

RECURSIVE MapStr(_, _, _)
\* Every character of str mapped, the two halves of str one after the other.
MapStr(str, from, to) ==
    IF Len(str) = 0 THEN ""
    ELSE IF Len(str) = 1 THEN MapChar(str, from, to)
    ELSE MapStr(SubSeq(str, 1, Len(str) \div 2), from, to)
            \o MapStr(SubSeq(str, Len(str) \div 2 + 1, Len(str)), from, to)

str_upper(str) == MapStr(str, LowerLetters, UpperLetters)

str_lower(str) == MapStr(str, UpperLetters, LowerLetters)

RECURSIVE join(_, _)
\* sep.join(strs)
join(sep, strs) ==
    IF strs = <<>> THEN ""
    ELSE IF Len(strs) = 1 THEN strs[1]
    ELSE strs[1] \o sep \o join(sep, Tail(strs))

\* Python's None, and the truth value of a string or None.
None == "<None>"
Truthy(v) == v # None /\ v # ""

\* The remote service accepts the key "good" and rejects every other key.
KeyAccepted(api_key) == api_key = "good"

\* `remote` is what the remote model does with this call: a question text or a FailKind.
\* The result tells how the call ended, with what, and how many remote calls it made.
generate_question(api_key, previous_questions, remote) ==
    IF api_key = ""
    THEN [kind |-> "ValueError", value |-> "GOOGLE_API_KEY missing", remote_calls |-> 0]
    ELSE IF ~KeyAccepted(api_key)
    THEN [kind |-> "RuntimeError", value |-> "api key not valid", remote_calls |-> 1]
    ELSE IF remote \in FailKinds
    THEN [kind |-> "RuntimeError", value |-> remote, remote_calls |-> 1]
    ELSE [kind |-> "ok", value |-> remote, remote_calls |-> 1]

(***************************************************************************)
(* prompt_strategies.py, and generate_question of llm_utils.py in detail.  *)
(* The flow above is given generate_question by its outcome only; here the *)
(* call is followed step by step on the response of the remote model.      *)
(***************************************************************************)
\* The keys of the registry PROMPT_STRATEGIES, in the order of the dictionary.
PROMPT_STRATEGIES ==
    <<"zero_shot", "few_shot", "chain_of_thought", "role_based", "structured_output", "socratic">>

StrategyKeys == {PROMPT_STRATEGIES[i] : i \in DOMAIN PROMPT_STRATEGIES}

\* A faulty variant of get_prompt_by_strategy, which the property of C26 must tell from
\* it: an unknown strategy falls back to the default strategy.
get_prompt_by_strategy_Fallback(strategy) ==
    IF strategy \notin StrategyKeys
    THEN [kind |-> "ok", value |-> "chain_of_thought_prompt"]
    ELSE [kind |-> "ok", value |-> strategy \o "_prompt"]

\* get_prompt_by_strategy: the prompt, named here by the function that builds it, or the
\* ValueError for a strategy outside the registry.
get_prompt_by_strategy(strategy) ==
    IF strategy \notin StrategyKeys
    THEN [kind |-> "ValueError",
          value |-> "Unknown strategy '" \o strategy \o "'. Available strategies: "
                        \o join(", ", PROMPT_STRATEGIES)]
    ELSE [kind |-> "ok", value |-> strategy \o "_prompt"]

\* _extract_text_from_candidate: "" for a candidate without content; for a candidate with
\* content the function ends without a return statement, which yields None.
extract_text_from_candidate(candidate) ==
    IF ~Truthy(candidate.content) THEN "" ELSE None

\* The try block of _extract_text_from_response: the stripped quick text, if the accessor
\* does not raise ValueError and the text is not blank.
QuickText(response) ==
    IF ~response.text_raises /\ Truthy(response.text) THEN strip(response.text) ELSE ""

RECURSIVE CandidateScan(_)
\* for candidate in candidates: ... if candidate_text: return candidate_text ... return ""
CandidateScan(candidates) ==
    IF candidates = <<>> THEN ""
    ELSE IF Truthy(extract_text_from_candidate(Head(candidates)))
    THEN extract_text_from_candidate(Head(candidates))
    ELSE CandidateScan(Tail(candidates))

extract_text_from_response(response) ==
    IF Truthy(QuickText(response)) THEN QuickText(response)
    ELSE CandidateScan(response.candidates)

prefixes_to_remove ==
    <<"**Question:**", "**Question**:", "Question:", "**Q:**", "Q:", "Interview Question:",
      "**Interview Question:**">>

RECURSIVE RemovePrefix_Repeated(_, _)
\* A faulty variant of the prefix loop, which the property of C25 must tell from it: the
\* list is gone through again on what is left, until no prefix matches.
RemovePrefix_Repeated(question, prefixes) ==
    IF prefixes = <<>> THEN question
    ELSE IF startswith(question, Head(prefixes))
    THEN RemovePrefix_Repeated(strip(SubSeq(question, Len(Head(prefixes)) + 1, Len(question))),
                               prefixes_to_remove)
    ELSE RemovePrefix_Repeated(question, Tail(prefixes))

RECURSIVE RemovePrefix(_, _)
\* for prefix in prefixes_to_remove: if question.startswith(prefix): ... break
RemovePrefix(question, prefixes) ==
    IF prefixes = <<>> THEN question
    ELSE IF startswith(question, Head(prefixes))
    THEN strip(SubSeq(question, Len(Head(prefixes)) + 1, Len(question)))
    ELSE RemovePrefix(question, Tail(prefixes))

\* if not question.endswith("?"): question += "?"
EnsureQuestionMark(question) == IF ~endswith(question, "?") THEN question \o "?" ELSE question

\* The clean-up of an extracted question.
CleanQuestion(question) == EnsureQuestionMark(RemovePrefix(strip(question), prefixes_to_remove))

\* str() of a member of an enumeration of the remote library: its name or its number,
\* as the Python runtime in use renders it (the code looks for both "MAX_TOKENS" and "2").
Renderings == {"name", "number"}
EnumStr(member, rendering) == IF rendering = "name" THEN member.name ELSE member.number

NoReason == [name |-> "", number |-> ""]
STOP == [name |-> "FinishReason.STOP", number |-> "1"]
MAX_TOKENS == [name |-> "FinishReason.MAX_TOKENS", number |-> "2"]
SAFETY == [name |-> "FinishReason.SAFETY", number |-> "3"]
HARASSMENT == [name |-> "HarmCategory.HARM_CATEGORY_HARASSMENT", number |-> "7"]

\* The entries one candidate adds to finish_reasons.
CandidateReasons(candidate, rendering) ==
    (IF candidate.finish_reason # NoReason
     THEN <<EnumStr(candidate.finish_reason, rendering)>> ELSE <<>>)
    \o [k \in 1..Len(SelectSeq(candidate.safety_ratings, LAMBDA rating : rating.blocked)) |->
            "BLOCKED: " \o EnumStr(SelectSeq(candidate.safety_ratings,
                                             LAMBDA rating : rating.blocked)[k].category, rendering)]

RECURSIVE finish_reasons(_, _)
finish_reasons(candidates, rendering) ==
    IF candidates = <<>> THEN <<>>
    ELSE CandidateReasons(Head(candidates), rendering) \o finish_reasons(Tail(candidates), rendering)

finish_reason_str(reasons) ==
    IF reasons # <<>> THEN join(", ", reasons) ELSE "No finish reason provided"

TokenLimitMessage ==
    "Response exceeded token limit. Try increasing 'Max Tokens' in the LLM Generation Settings (recommended: 1024-2048)."
SafetyMessage ==
    "Content blocked by Gemini safety filters. Try adjusting your safety settings to 'Block None' or 'Block Few' in the app settings."
EmptyResponseMessage == "Gemini returned an empty or invalid response. Finish reasons: "
MissingKeyMessage == "GOOGLE_API_KEY missing. Please provide it via the .env file or settings."
WrapperPrefix == "Gemini question generation failed: "

\* The message of the RuntimeError raised for a response without a question.
EmptyResponseError(reason_str) ==
    IF contains("MAX_TOKENS", str_upper(reason_str)) \/ contains("2", reason_str)
    THEN TokenLimitMessage
    ELSE IF contains("SAFETY", str_upper(reason_str)) \/ contains("BLOCKED", str_upper(reason_str))
    THEN SafetyMessage
    ELSE EmptyResponseMessage \o reason_str

\* The steps of the try block, in order.
BeforePrompt == <<"configure", "GenerativeModel", "get_prompt_by_strategy">>
BeforeResponse == BeforePrompt \o <<"generate_content">>

\* From the response on: the question extracted and cleaned, or the RuntimeError.
FromResponse(response, rendering) ==
    IF Truthy(extract_text_from_response(response))
    THEN [kind |-> "ok", value |-> CleanQuestion(extract_text_from_response(response)),
          steps |-> BeforeResponse, extracted |-> extract_text_from_response(response)]
    ELSE [kind |-> "RuntimeError",
          value |-> EmptyResponseError(finish_reason_str(finish_reasons(response.candidates, rendering))),
          steps |-> BeforeResponse, extracted |-> extract_text_from_response(response)]

\* The try block: `remote` is what model.generate_content does, raise or return a response.
TryBlock(prompt_strategy, rendering, remote) ==
    IF get_prompt_by_strategy(prompt_strategy).kind # "ok"
    THEN [kind |-> get_prompt_by_strategy(prompt_strategy).kind,
          value |-> get_prompt_by_strategy(prompt_strategy).value,
          steps |-> BeforePrompt, extracted |-> None]
    ELSE IF remote.kind = "raises"
    THEN [kind |-> "Exception", value |-> remote.message, steps |-> BeforeResponse,
          extracted |-> None]
    ELSE FromResponse(remote.response, rendering)

\* except Exception as exc: raise RuntimeError(f"Gemini question generation failed: {exc}")
Wrapped(r) ==
    IF r.kind = "ok" THEN r
    ELSE [r EXCEPT !.kind = "RuntimeError", !.value = WrapperPrefix \o r.value]

\* A faulty variant of generate_question, which the property of C21 must tell from it:
\* the key is looked at inside the try block, after the client is configured.
generate_question_call_KeyInsideTry(api_key, prompt_strategy, rendering, remote) ==
    IF ~Truthy(api_key)
    THEN Wrapped([kind |-> "ValueError", value |-> MissingKeyMessage, steps |-> <<"configure">>,
                  extracted |-> None])
    ELSE Wrapped(TryBlock(prompt_strategy, rendering, remote))

\* generate_question, step by step.
generate_question_call(api_key, prompt_strategy, rendering, remote) ==
    IF ~Truthy(api_key)
    THEN [kind |-> "ValueError", value |-> MissingKeyMessage, steps |-> <<>>, extracted |-> None]
    ELSE Wrapped(TryBlock(prompt_strategy, rendering, remote))

(***************************************************************************)
(* practice_app.py                                                         *)
(***************************************************************************)
NoTimer ==
    [index |-> -1, time |-> 0, per_question_seconds |-> 0, remaining |-> 0,
     audio_enabled |-> FALSE, audio_panel |-> FALSE, hidden |-> FALSE]

\* The result of a run: the stores, the view it leaves, and what it did.
Result(s, q, v, calls, msg, timer) ==
    [ss |-> s, qp |-> q, view |-> v, calls |-> calls, msg |-> msg, timer |-> timer]

\* Two faulty variants of the generation loop, which the properties of C3 and C6 must
\* tell from it: one passes no prior questions to generate_question, one carries on
\* with the next call after a call has failed.
RECURSIVE GenerateLoop_NoPrior(_, _, _, _, _)
GenerateLoop_NoPrior(i, questions, calls, api_key, remote) ==
    IF i = NumQuestions
    THEN [kind |-> "ok", value |-> "", questions |-> questions, calls |-> calls]
    ELSE LET r == generate_question(api_key, <<>>, remote[i + 1])
             made == Append(calls, [previous_questions |-> <<>>, kind |-> r.kind,
                                    value |-> r.value, remote_calls |-> r.remote_calls])
         IN IF r.kind = "ok"
            THEN GenerateLoop_NoPrior(i + 1, Append(questions, r.value), made, api_key, remote)
            ELSE [kind |-> r.kind, value |-> r.value, questions |-> questions, calls |-> made]

RECURSIVE GenerateLoop_CarryOn(_, _, _, _, _)
GenerateLoop_CarryOn(i, questions, calls, api_key, remote) ==
    IF i = NumQuestions
    THEN [kind |-> IF Len(questions) = NumQuestions THEN "ok" ELSE "RuntimeError",
          value |-> "", questions |-> questions, calls |-> calls]
    ELSE LET r == generate_question(api_key, questions, remote[i + 1])
             made == Append(calls, [previous_questions |-> questions, kind |-> r.kind,
                                    value |-> r.value, remote_calls |-> r.remote_calls])
         IN GenerateLoop_CarryOn(i + 1,
                IF r.kind = "ok" THEN Append(questions, r.value) ELSE questions,
                made, api_key, remote)

\* for i in range(5): question = generate_question(..., previous_questions=questions, ...);
\* questions.append(question).  remote[i + 1] is what the remote model does with call i.
\* `calls` lists the calls made: what each was given, how it ended, what it returned.
RECURSIVE GenerateLoop(_, _, _, _, _)
GenerateLoop(i, questions, calls, api_key, remote) ==
    IF i = NumQuestions
    THEN [kind |-> "ok", value |-> "", questions |-> questions, calls |-> calls]
    ELSE LET r == generate_question(api_key, questions, remote[i + 1])
             made == Append(calls, [previous_questions |-> questions, kind |-> r.kind,
                                    value |-> r.value, remote_calls |-> r.remote_calls])
         IN IF r.kind = "ok"
            THEN GenerateLoop(i + 1, Append(questions, r.value), made, api_key, remote)
            ELSE [kind |-> r.kind, value |-> r.value, questions |-> questions, calls |-> made]

\* The except clauses of the generation block: which message st.error shows.
ErrorMessage(kind, value) ==
    IF kind = "ValueError" THEN "content_safety"
    ELSE IF \/ contains("api key", str_lower(value))
            \/ contains("api_key", str_lower(value))
            \/ contains("finish reasons: 3", str_lower(value))
    THEN "api_key"
    ELSE "generic"

\* A faulty variant of the allotted time, which the property of C11 must tell from it:
\* the two difficulties have each other's time.
per_question_seconds_Swapped(round_type, difficulty) ==
    IF lower(round_type) = "coding" THEN CodingSeconds
    ELSE IF lower(difficulty) = "beginner" THEN ProfessionalSeconds
    ELSE BeginnerSeconds

per_question_seconds(round_type, difficulty) ==
    IF lower(round_type) = "coding" THEN CodingSeconds
    ELSE IF lower(difficulty) = "beginner" THEN BeginnerSeconds
    ELSE ProfessionalSeconds

\* Two faulty variants of the end of the generation block, which the properties of C4
\* and C7 must tell from it: one keeps the questions generated before a failure, one
\* reruns after a failure instead of stopping.
StoreQuestions_KeepPartial(s, q, g) ==
    IF g.kind = "ok"
    THEN Result(Put(s, "questions", g.questions), q, "pending", g.calls, "none", NoTimer)
    ELSE Result(Put(s, "questions", g.questions), q, "error", g.calls,
                ErrorMessage(g.kind, g.value), NoTimer)

StoreQuestions_Rerun(s, q, g) ==
    IF g.kind = "ok"
    THEN Result(Put(s, "questions", g.questions), q, "pending", g.calls, "none", NoTimer)
    ELSE Result(Put(s, "questions", <<>>), q, "pending", g.calls,
                ErrorMessage(g.kind, g.value), NoTimer)

\* The end of the generation block: a success stores the questions and reruns; a
\* failure (the except clauses) shows a message, resets the questions and stops the run.
StoreQuestions(s, q, g) ==
    IF g.kind = "ok"
    THEN Result(Put(s, "questions", g.questions), q, "pending", g.calls, "none", NoTimer)
    ELSE Result(Put(s, "questions", <<>>), q, "error", g.calls, ErrorMessage(g.kind, g.value), NoTimer)

\* if not st.session_state.questions: ... (the generation block)
LoadQuestions(s, q, api_key, remote) ==
    StoreQuestions(s, q, GenerateLoop(0, <<>>, <<>>, api_key, remote))

\* The handler of "Start New Interview": the keys it pops from the session state.
\* A faulty variant of Start New Interview, which the property of C17 must tell from it:
\* the question index and the locks of the finished interview are kept.
StartNewInterview_KeepIndex(s) ==
    PopAll(s, {"paused", "finished", "questions", "question_timers",
               "audio_mode_enabled", "audio_checkbox"})

StartNewInterview(s) ==
    PopAll(s, {"paused", "finished", "questions", "current_question_index", "question_timers",
               "question_locked", "audio_mode_enabled", "audio_checkbox",
               "answer_0", "answer_1", "answer_2", "answer_3", "answer_4",
               "answer_5", "answer_6", "answer_7", "answer_8", "answer_9"})

\* The top of the finished view: audio off, then the answers re-read from the widgets.
AudioOff(s) == Put(Put(s, "audio_mode_enabled", FALSE), "audio_checkbox", FALSE)

snapshot_answers(s) ==
    [idx \in 0..(Len(s["questions"]) - 1) |->
        IF Has(s, widget_key(idx)) THEN s[widget_key(idx)] ELSE Get(s["answers"], idx, "")]

\* A faulty variant of the snapshot, which the property of C15 must tell from it: an
\* answer without a live widget is recorded as empty text.
SnapshotAnswers_WidgetsOnly(s) ==
    Put(s, "answers",
        [idx \in 0..(Len(s["questions"]) - 1) |->
            IF Has(s, widget_key(idx)) THEN s[widget_key(idx)] ELSE ""])

SnapshotAnswers(s) == Put(s, "answers", Update(s["answers"], snapshot_answers(s)))

\* The two buttons at the bottom of the finished view.
\* A faulty variant of the buttons of the finished view, which the property of C19 must
\* tell from it: Back to Setup clears the store and keeps the query parameters.
FinishedButtons_KeepUrl(s, q, ev) ==
    IF ev = "start_new"
    THEN Result(DropStaleWidgets(StartNewInterview(s), {}), q, "pending", <<>>, "none", NoTimer)
    ELSE IF ev = "back_to_setup" THEN Result(EmptyDict, q, "pending", <<>>, "none", NoTimer)
    ELSE Result(DropStaleWidgets(s, {}), q, "finished", <<>>, "none", NoTimer)

FinishedButtons(s, q, ev) ==
    IF ev = "start_new"
    THEN Result(DropStaleWidgets(StartNewInterview(s), {}), q, "pending", <<>>, "none", NoTimer)
    ELSE IF ev = "back_to_setup" THEN Result(EmptyDict, EmptyDict, "pending", <<>>, "none", NoTimer)
    ELSE Result(DropStaleWidgets(s, {}), q, "finished", <<>>, "none", NoTimer)

\* The tip sets of role_specific, by their key, and the fallback of role_specific.get.
role_specific == {"software engineer", "data scientist", "product manager"}
GenericTips == "generic"

RECURSIVE TotalLength(_, _)
\* sum(response_lengths) over the first n questions
TotalLength(answers, n) ==
    IF n = 0 THEN 0 ELSE Len(Get(answers, n - 1, "")) + TotalLength(answers, n - 1)

\* The overall feedback of the summary: the acknowledgment, the nudge when the average
\* answer length is below 100, and the tips role_specific.get(role, generic).
feedback(s, q) ==
    LET role == lower(Get(q, "role", "Software Engineer"))
        n == Len(s["questions"])
    IN [acknowledgment |-> TRUE,
        nudge |-> IF n > 0 THEN TotalLength(s["answers"], n) < 100 * n ELSE TRUE,
        tips |-> IF role \in role_specific THEN role ELSE GenericTips]

\* if interview_finished: ... return
FinishedView(s, q, ev) == FinishedButtons(SnapshotAnswers(AudioOff(s)), q, ev)

\* A faulty variant of the Next button, which the property of C8 must tell from it:
\* the button is never disabled.
NextEnabled_Always(current_index, total_questions) == TRUE

\* display_navigation_buttons: which buttons are rendered enabled for this index.
PreviousEnabled(current_index, total_questions) == ~(current_index = 0)

NextEnabled(current_index, total_questions) == ~(current_index >= total_questions - 1)

NewQuestionOffered(current_index, total_questions) == current_index < total_questions - 1

FinishOffered(current_index, total_questions) == ~(current_index < total_questions - 1)

\* A faulty variant of the countdown, which the property of C10 must tell from it:
\* the elapsed time is not capped at the time allotted.
Remaining_NoCap(question_start_time, tnow, allotted) ==
    allotted - Max(0, int(tnow - question_start_time))

\* The countdown of the question shown: elapsed, clamped, and what remains.
Remaining(question_start_time, tnow, allotted) ==
    LET elapsed == Min(Max(0, int(tnow - question_start_time)), allotted)
    IN allotted - elapsed

\* The audio mode of the answering view and whether the text area is hidden.
AudioMode(s) == Get(s, "audio_mode_enabled", Get(s, "audio_checkbox", FALSE))

\* A faulty variant of the hidden text area, which the property of C13 must tell from
\* it: the round type is not looked at.
AnswerHidden_AnyRound(s, q, current_locked) == AudioMode(s) /\ ~current_locked

AnswerHidden(s, q, current_locked) ==
    AudioMode(s) /\ ~current_locked /\ ~(lower(Get(q, "round", "Coding")) = "coding")

\* audio_enabled: never in a coding round, the stored preference otherwise.
audio_enabled(s, q) ==
    IF lower(Get(q, "round", "Coding")) = "coding" THEN FALSE
    ELSE Get(s, "audio_mode_enabled", Get(s, "audio_checkbox", TRUE))

\* if not is_coding_round and audio_enabled and not current_locked: render_audio_input_panel
AudioPanelRendered(s, q, current_locked) ==
    ~(lower(Get(q, "round", "Coding")) = "coding") /\ audio_enabled(s, q) /\ ~current_locked

\* A faulty variant of the Finish Interview handler, which the property of C9 must tell
\* from it: the audio flags are left as they are.
FinishClicked_KeepAudio(s) == Put(s, "finished", TRUE)

\* What the buttons of the answering view do (the tail of practice_session).
PrevClicked(s) == Put(s, "current_question_index", s["current_question_index"] - 1)

NextClicked(s) == Put(s, "current_question_index", s["current_question_index"] + 1)

FinishClicked(s) ==
    Put(Put(Put(s, "finished", TRUE), "audio_mode_enabled", FALSE), "audio_checkbox", FALSE)

\* The time allotted to each question of this session, from the query parameters.
Allotted(q) == per_question_seconds(Get(q, "round", "Coding"), Get(q, "difficulty", "Professional"))

\* A faulty variant of the start of the answering view, which the property of C30 must
\* tell from it: every render restarts the countdown of the question it shows.
StartTimer_Restart(s, tnow) ==
    LET s1 == SetDefault(SetDefault(s, "question_timers", EmptyDict), "question_locked", EmptyDict)
    IN Put(s1, "question_timers", Put(s1["question_timers"], s1["current_question_index"], tnow))

\* The start of the answering view: the two dictionaries exist, and the question shown
\* has a start time (the time of its first render).
StartTimer(s, tnow) ==
    LET s1 == SetDefault(SetDefault(s, "question_timers", EmptyDict), "question_locked", EmptyDict)
    IN Put(s1, "question_timers",
           SetDefault(s1["question_timers"], s1["current_question_index"], tnow))

\* remaining, as computed for the question shown
CurrentRemaining(s, q, tnow) ==
    Remaining(s["question_timers"][s["current_question_index"]], tnow, Allotted(q))

\* A faulty variant of the lock, which the property of C29 must tell from it: the
\* question is locked one second before its time is up.
LockExpired_Early(s, q, tnow) ==
    IF CurrentRemaining(s, q, tnow) <= 1
    THEN Put(s, "question_locked", Put(s["question_locked"], s["current_question_index"], TRUE))
    ELSE s

\* if remaining == 0: st.session_state.question_locked[current_index] = True
LockExpired(s, q, tnow) ==
    IF CurrentRemaining(s, q, tnow) = 0
    THEN Put(s, "question_locked", Put(s["question_locked"], s["current_question_index"], TRUE))
    ELSE s

\* Whether the question shown is locked, as the answer area reads it.
CurrentLocked(s) == Get(s["question_locked"], s["current_question_index"], FALSE)

\* What this run showed: the countdown, and how the answer area was rendered.
TimerShown(s, q, tnow) ==
    [index |-> s["current_question_index"], time |-> tnow,
     per_question_seconds |-> Allotted(q), remaining |-> CurrentRemaining(s, q, tnow),
     audio_enabled |-> audio_enabled(s, q),
     audio_panel |-> AudioPanelRendered(s, q, CurrentLocked(s)),
     hidden |-> AnswerHidden(s, q, CurrentLocked(s))]

\* The answer of the question shown: the stored answer seeds the widget, the widget's
\* value is saved back into the answers.
SaveAnswer(s) ==
    LET current_index == s["current_question_index"]
        key == widget_key(current_index)
        answers == Get(s, "answers", EmptyDict)
        latest_response == Get(s, key, Get(answers, current_index, ""))
    IN DropStaleWidgets(
           Put(Put(s, key, latest_response), "answers", Put(answers, current_index, latest_response)),
           {key})

\* A faulty variant of the navigation buttons, which the property of C20 must tell from
\* it: New Question is handled as Next.
NavigationButtons_NewQuestionSkips(s, q, ev, timer) ==
    LET current_index == s["current_question_index"]
        total == Len(s["questions"])
    IN IF ev = "prev" /\ PreviousEnabled(current_index, total)
       THEN Result(PrevClicked(s), q, "pending", <<>>, "none", timer)
       ELSE IF ev \in {"next", "new_question"} /\ NextEnabled(current_index, total)
       THEN Result(NextClicked(s), q, "pending", <<>>, "none", timer)
       ELSE IF ev = "finish" /\ FinishOffered(current_index, total)
       THEN Result(FinishClicked(s), q, "pending", <<>>, "none", timer)
       ELSE Result(s, q, "answering", <<>>, "none", timer)

\* The navigation buttons and their handlers.
NavigationButtons(s, q, ev, timer) ==
    LET current_index == s["current_question_index"]
        total == Len(s["questions"])
    IN IF ev = "prev" /\ PreviousEnabled(current_index, total)
       THEN Result(PrevClicked(s), q, "pending", <<>>, "none", timer)
       ELSE IF ev = "next" /\ NextEnabled(current_index, total)
       THEN Result(NextClicked(s), q, "pending", <<>>, "none", timer)
       ELSE IF ev = "finish" /\ FinishOffered(current_index, total)
       THEN Result(FinishClicked(s), q, "pending", <<>>, "none", timer)
       ELSE Result(s, q, "answering", <<>>, "none", timer)

\* try: current_question = questions[current_question_index] except IndexError: ... return
QuestionArea(s, q, tnow, ev) ==
    IF \/ s["current_question_index"] >= Len(s["questions"])
       \/ s["current_question_index"] < -Len(s["questions"])
    THEN Result(DropStaleWidgets(s, {}), q, "no_questions", <<>>, "none", TimerShown(s, q, tnow))
    ELSE NavigationButtons(SaveAnswer(s), q, ev, TimerShown(s, q, tnow))

\* else: ... (the answering view, from the timer to the navigation buttons)
AnsweringView(s, q, tnow, ev) == QuestionArea(LockExpired(StartTimer(s, tnow), q, tnow), q, tnow, ev)

\* required_state, at the top of practice_session
RequiredState(s) ==
    SetDefault(SetDefault(SetDefault(SetDefault(SetDefault(SetDefault(s,
        "questions", <<>>), "current_question_index", 0), "answers", EmptyDict),
        "question_timers", EmptyDict), "question_locked", EmptyDict),
        "google_api_key", "")

\* if "audio_checkbox" not in st.session_state: ...
AudioCheckboxDefault(s, q) ==
    IF Has(s, "audio_checkbox") THEN s
    ELSE IF Has(s, "audio_mode_enabled") THEN Put(s, "audio_checkbox", s["audio_mode_enabled"])
    ELSE Put(s, "audio_checkbox", ~(lower(Get(q, "round", "Coding")) = "coding"))

InitPracticeState(s, q) == AudioCheckboxDefault(RequiredState(s), q)

\* api_key = st.session_state.get('google_api_key') or os.getenv('GOOGLE_API_KEY')
ResolveApiKey(s, envk) == IF s["google_api_key"] # "" THEN s["google_api_key"] ELSE envk

\* A faulty variant of practice_session, which the property of C5 must tell from it:
\* the New Question button generates the questions again.
PracticeBody_Regenerate(s, q, tnow, envk, ev, remote) ==
    IF s["questions"] = <<>> \/ ev = "new_question"
    THEN LoadQuestions(DropStaleWidgets(s, {}), q, ResolveApiKey(s, envk), remote)
    ELSE IF Get(s, "finished", FALSE)
    THEN FinishedView(s, q, ev)
    ELSE AnsweringView(s, q, tnow, ev)

\* The three branches of practice_session, on the initialised state.
PracticeBody(s, q, tnow, envk, ev, remote) ==
    IF s["questions"] = <<>>
    THEN LoadQuestions(DropStaleWidgets(s, {}), q, ResolveApiKey(s, envk), remote)
    ELSE IF Get(s, "finished", FALSE)
    THEN FinishedView(s, q, ev)
    ELSE AnsweringView(s, q, tnow, ev)

practice_session(s, q, tnow, envk, ev, remote) ==
    PracticeBody(InitPracticeState(s, q), q, tnow, envk, ev, remote)

(***************************************************************************)
(* streamlit_app.py                                                        *)
(***************************************************************************)
coding_keywords == {"developer", "engineer", "coder", "coding", "programmer", "software"}

\* `keyword in role_text`: the keywords that are substrings of a lower-cased role of the model
keywords_in(role_text) ==
    CASE role_text = "software engineer" -> {"engineer", "software"}
      [] role_text = "data engineer" -> {"engineer"}
      [] OTHER -> {}

\* any(keyword in role_text for keyword in coding_keywords)
coding_round_enabled(role) == \E keyword \in coding_keywords : keyword \in keywords_in(lower(role))

\* get_google_api_key: the key typed in this session, else the environment's
get_google_api_key(s, envk) == IF Get(s, "user_api_key", "") # "" THEN s["user_api_key"] ELSE envk

\* The widgets of the setup page.  A keyed widget returns its stored value when it has
\* one and its `value` argument otherwise.
ApiKeyInput(s) ==
    LET typed == Get(s, "api_key_input", s["user_api_key"])
    IN IF typed # "" THEN Put(Put(s, "api_key_input", typed), "user_api_key", typed)
       ELSE Put(s, "api_key_input", typed)

RoleInput(s) ==
    LET typed == Get(s, "role_input", s["role"])
    IN Put(Put(s, "role_input", typed), "role", typed)

CompanyInput(s) ==
    LET typed == Get(s, "company_input", s["company"])
    IN Put(Put(s, "company_input", typed), "company", typed)

\* The round and difficulty radios: a stored "Coding" is dropped when the role does
\* not offer the coding round.
Radios(s) ==
    LET round ==
            IF ~coding_round_enabled(s["role"]) /\ Get(s, "round_radio", "") = "Coding"
            THEN "Warm Up" ELSE Get(s, "round_radio", "Warm Up")
    IN SetDefault(Put(s, "round_radio", round), "difficulty_radio", "Professional")

\* A faulty variant of the audio checkbox of the setup page, which the property of C14
\* must tell from it: the checkbox keeps its value in the coding round.
AudioCheckbox_KeepPreference(s) ==
    Put(Put(s, "audio_checkbox", Get(s, "audio_checkbox", TRUE)),
        "audio_mode_enabled", Get(s, "audio_checkbox", TRUE))

\* The audio checkbox: forced off for the coding round, the checkbox's value otherwise.
AudioCheckbox(s) ==
    IF s["round_radio"] = "Coding"
    THEN Put(Put(s, "audio_checkbox", FALSE), "audio_mode_enabled", FALSE)
    ELSE Put(Put(s, "audio_checkbox", Get(s, "audio_checkbox", TRUE)),
             "audio_mode_enabled", Get(s, "audio_checkbox", TRUE))

\* The key validation: a key validated before is not validated again.
api_key_available(s, envk) ==
    LET api_key == get_google_api_key(s, envk)
    IN api_key # "" /\ (Get(s, "validated_api_key", "") = api_key \/ KeyAccepted(api_key))

ValidateKey(s, envk) ==
    IF api_key_available(s, envk)
    THEN Put(Put(s, "validated_api_key", get_google_api_key(s, envk)),
             "google_api_key", get_google_api_key(s, envk))
    ELSE s

\* The setup page, from the API key input to the key validation.
SetupPage(s, envk) ==
    ValidateKey(AudioCheckbox(Radios(CompanyInput(RoleInput(ApiKeyInput(s))))), envk)

\* The CANCEL and START buttons under the setup page and what START does.
SetupButtons(s, q, envk, ev) ==
    IF ev = "cancel"
    THEN Result(s, q, "pending", <<>>, "none", NoTimer)
    ELSE IF ev = "start" /\ s["role"] # "" /\ api_key_available(s, envk)
    THEN LET go == handle_practice_navigation(Put(s, "start_practice", TRUE), q)
         IN Result(go.ss, go.qp, "pending", <<>>, "none", NoTimer)
    ELSE Result(s, q, "setup", <<>>, "none", NoTimer)

\* The run after handle_practice_navigation has returned (or has ended it).
Page(nav, q, tnow, envk, ev, remote) ==
    IF nav.result = "rerun"
    THEN Result(nav.ss, nav.qp, "pending", <<>>, "none", NoTimer) @@ [nav |-> "none"]
    ELSE IF nav.result = "setup"
    THEN SetupButtons(DropStaleWidgets(SetupPage(nav.ss, envk), {}), q, envk, ev)
             @@ [nav |-> "setup"]
    ELSE IF ev = "cancel"
    THEN Result(DropStaleWidgets(nav.ss, {}), q, "pending", <<>>, "none", NoTimer)
             @@ [nav |-> "practice"]
    ELSE practice_session(nav.ss, q, tnow, envk, ev, remote) @@ [nav |-> "practice"]

\* One run of main() on the event ev, at time tnow.
main(s, q, tnow, envk, ev, remote) ==
    Page(handle_practice_navigation(
             SetDefault(SetDefault(SetDefault(s, "role", ""), "company", ""), "user_api_key", ""), q),
         q, tnow, envk, ev, remote)

(***************************************************************************)
(* The session as a state machine.                                         *)
(***************************************************************************)
NoRemote == [i \in 1..NumQuestions |-> "qa"]

\* The values of call, process and dom while the part they hold is not under study.
NoCall == [stage |-> "none"]
NoProcess == [stage |-> "none"]
NoDom == [stage |-> "none"]

\* A session starts when the user opens the application at a URL, with an empty store.
Init ==
    /\ ss = EmptyDict
    /\ qp \in UrlChoices
    /\ now = 0
    /\ clockSteps = 0
    /\ env_key \in EnvKeys
    /\ view = "pending"
    /\ run = [calls |-> <<>>, msg |-> "none", timer |-> NoTimer, nav |-> "none"]
    /\ call = NoCall
    /\ process = NoProcess
    /\ dom = NoDom

\* The run started by event ev, with the widget state s the browser sent with it.
Finish(r) ==
    /\ ss' = r.ss
    /\ qp' = r.qp
    /\ view' = r.view
    /\ run' = [calls |-> r.calls, msg |-> r.msg, timer |-> r.timer, nav |-> r.nav]
    /\ UNCHANGED <<now, clockSteps, env_key, call, process, dom>>

Run(ev, s, remote) == Finish(main(s, qp, now, env_key, ev, remote))

\* Whether this run enters the generation block, and so draws answers from the remote model.
WillGenerate ==
    /\ Has(qp, "page") /\ qp["page"] = "practice"
    /\ Get(ss, "questions", <<>>) = <<>>

\* The remote model's behaviour over the calls of one run: a stream of question texts,
\* with at most one failure put in it.
RemoteChoices ==
    { [i \in 1..NumQuestions |-> IF i = failAt THEN fk ELSE texts[i]] :
        texts \in ReplyStreams, failAt \in 0..NumQuestions, fk \in FailKinds }

\* A run without a widget event: the first run of a session, or the run after st.rerun().
Rerun ==
    /\ view = "pending"
    /\ IF WillGenerate THEN \E remote \in RemoteChoices : Run("rerun", ss, remote)
       ELSE Run("rerun", ss, NoRemote)

\* Events of the setup page: each changes one widget's value and starts a run.
TypeRole ==
    /\ view = "setup"
    /\ \E r \in RoleTexts \ {ss["role_input"]} : Run("type_role", Put(ss, "role_input", r), NoRemote)

TypeCompany ==
    /\ view = "setup"
    /\ \E c \in CompanyTexts \ {ss["company_input"]} :
          Run("type_company", Put(ss, "company_input", c), NoRemote)

TypeApiKey ==
    /\ view = "setup"
    /\ \E k \in (KeyTexts \cup {""}) \ {ss["api_key_input"]} :
          Run("type_api_key", Put(ss, "api_key_input", k), NoRemote)

PickRound ==
    /\ view = "setup"
    /\ \E x \in RoundChoices \ {ss["round_radio"]} :
          /\ x = "Coding" => coding_round_enabled(ss["role"])
          /\ Run("pick_round", Put(ss, "round_radio", x), NoRemote)

PickDifficulty ==
    /\ view = "setup"
    /\ \E d \in DifficultyChoices \ {ss["difficulty_radio"]} :
          Run("pick_difficulty", Put(ss, "difficulty_radio", d), NoRemote)

ToggleAudio ==
    /\ view = "setup"
    /\ ss["round_radio"] # "Coding"
    /\ Run("toggle_audio", Put(ss, "audio_checkbox", ~ss["audio_checkbox"]), NoRemote)

ClickStart ==
    /\ view = "setup"
    /\ Run("start", ss, NoRemote)

\* CANCEL is rendered on both pages, and is the only button of the error view.
ClickCancel ==
    /\ view \in {"setup", "answering", "finished", "error", "no_questions"}
    /\ Run("cancel", ss, NoRemote)

\* Events of the answering view.
AnswerEditable ==
    LET i == ss["current_question_index"]
        current_locked == Get(ss["question_locked"], i, FALSE)
    IN ~current_locked /\ ~AnswerHidden(ss, qp, current_locked)

\* The user types into the answer field shown.  At most MaxAnswers answers are non-empty
\* at a time.
Answered == {i \in DOMAIN ss["answers"] : ss["answers"][i] # ""}

EditAnswer ==
    /\ view = "answering"
    /\ AnswerEditable
    /\ \E text \in AnswerTexts \ {ss[widget_key(ss["current_question_index"])]} :
          /\ text # "" => Cardinality(Answered \ {ss["current_question_index"]}) < MaxAnswers
          /\ Run("edit", Put(ss, widget_key(ss["current_question_index"]), text), NoRemote)

ClickPrevious ==
    /\ view = "answering"
    /\ PreviousEnabled(ss["current_question_index"], Len(ss["questions"]))
    /\ Run("prev", ss, NoRemote)

ClickNext ==
    /\ view = "answering"
    /\ NextEnabled(ss["current_question_index"], Len(ss["questions"]))
    /\ Run("next", ss, NoRemote)

ClickNewQuestion ==
    /\ view = "answering"
    /\ NewQuestionOffered(ss["current_question_index"], Len(ss["questions"]))
    /\ Run("new_question", ss, NoRemote)

ClickFinish ==
    /\ view = "answering"
    /\ FinishOffered(ss["current_question_index"], Len(ss["questions"]))
    /\ Run("finish", ss, NoRemote)

\* Events of the finished view.
ClickStartNew ==
    /\ view = "finished"
    /\ Run("start_new", ss, NoRemote)

ClickBackToSetup ==
    /\ view = "finished"
    /\ Run("back_to_setup", ss, NoRemote)

\* The clock is read only by the answering view, and only relative to a stored start
\* time: its moves are followed while a countdown is running.
TimerRunning ==
    /\ Get(ss, "question_timers", EmptyDict) # EmptyDict
    /\ ~Get(ss, "finished", FALSE)

\* How far the clock moves in one step: one tick, or to one tick before the time
\* allotted to a question runs out.
ClockJumps ==
    { 1,
      per_question_seconds(Get(qp, "round", "Coding"), Get(qp, "difficulty", "Professional"))
          * TicksPerSecond - 1 }

\* The wall clock moves forward.
ClockAdvance ==
    /\ clockSteps < MaxClockSteps
    /\ TimerRunning
    /\ \E d \in ClockJumps : now' = now + d
    /\ clockSteps' = clockSteps + 1
    /\ UNCHANGED <<ss, qp, env_key, view, run, call, process, dom>>

\* The wall clock is set back by one second (time.time() is not monotonic).
ClockStepBack ==
    /\ clockSteps < MaxClockSteps
    /\ TimerRunning
    /\ now' = now - TicksPerSecond
    /\ clockSteps' = clockSteps + 1
    /\ UNCHANGED <<ss, qp, env_key, view, run, call, process, dom>>

(***************************************************************************)
(* Spec is the whole session.  TLC explores it in slices: each of the      *)
(* specifications below starts in initial states of Spec and takes steps   *)
(* of Next, so each of its behaviours is a behaviour of Spec.              *)
(***************************************************************************)
Next ==
    \/ Rerun
    \/ TypeRole
    \/ TypeCompany
    \/ TypeApiKey
    \/ PickRound
    \/ PickDifficulty
    \/ ToggleAudio
    \/ ClickStart
    \/ ClickCancel
    \/ EditAnswer
    \/ ClickPrevious
    \/ ClickNext
    \/ ClickNewQuestion
    \/ ClickFinish
    \/ ClickStartNew
    \/ ClickBackToSetup
    \/ ClockAdvance
    \/ ClockStepBack

Spec == Init /\ [][Next]_vars

\* The setup page up to the first render of the practice page.
NextSetup ==
    \/ Rerun
    \/ TypeRole
    \/ TypeCompany
    \/ TypeApiKey
    \/ PickRound
    \/ PickDifficulty
    \/ ToggleAudio
    \/ ClickStart
    \/ ClickCancel

SpecSetup == Init /\ [][NextSetup]_vars

\* The whole flow from setup to the summary and back, with the clock standing still
\* and the company left empty.
NextFlow ==
    \/ Rerun
    \/ TypeRole
    \/ TypeApiKey
    \/ PickRound
    \/ PickDifficulty
    \/ ToggleAudio
    \/ ClickStart
    \/ ClickCancel
    \/ EditAnswer
    \/ ClickPrevious
    \/ ClickNext
    \/ ClickNewQuestion
    \/ ClickFinish
    \/ ClickStartNew
    \/ ClickBackToSetup

SpecFlow == Init /\ [][NextFlow]_vars

\* Sessions opened on the practice page with a key in the environment: the practice
\* page, from the first question to the summary and a new interview, while the clock moves.
InitTimer ==
    /\ Init
    /\ Has(qp, "page") /\ qp["page"] = "practice"
    /\ env_key = "good"

NextTimer ==
    \/ Rerun
    \/ EditAnswer
    \/ ClickPrevious
    \/ ClickNext
    \/ ClickNewQuestion
    \/ ClickFinish
    \/ ClickStartNew
    \/ ClickBackToSetup
    \/ ClockAdvance
    \/ ClockStepBack

SpecTimer == InitTimer /\ [][NextTimer]_vars


\* The answer area as a function of the stored audio preference: the store of a session
\* whose questions have just been generated, holding every combination of the two audio
\* flags (each absent, false or true), under every round the URL can name.
AudioStores ==
    UNION { [K -> BOOLEAN] : K \in SUBSET {"audio_mode_enabled", "audio_checkbox"} }

InitAudio ==
    /\ \E a \in AudioStores, texts \in ReplyStreams :
          ss = Update([role |-> "", company |-> "", user_api_key |-> "", google_api_key |-> "",
                       questions |-> texts, current_question_index |-> 0,
                       answers |-> EmptyDict, question_timers |-> EmptyDict,
                       question_locked |-> EmptyDict], a)
    /\ qp \in {u \in UrlChoices : Has(u, "page") /\ u["page"] = "practice"}
    /\ now = 0
    /\ clockSteps = 0
    /\ env_key = "good"
    /\ view = "pending"
    /\ run = [calls |-> <<>>, msg |-> "none", timer |-> NoTimer, nav |-> "none"]
    /\ call = NoCall
    /\ process = NoProcess
    /\ dom = NoDom

NextAudio ==
    \/ Rerun
    \/ ClickNewQuestion
    \/ ClockAdvance

SpecAudio == InitAudio /\ [][NextAudio]_vars

(***************************************************************************)
(* One call of generate_question in detail, and what the practice page     *)
(* shows when it fails.                                                    *)
(***************************************************************************)
ApiKeyChoices == {"", "good", "bad"}
StrategyChoices == {"chain_of_thought", "socratic", "unknown-strategy"}

\* What the remote model sends back with text: one candidate that carries the text.
QuickTexts ==
    {"What is X?", "Question: What is X?", "Explain Y", "  **Q:** Q: Why  ",
     "Interview Question: Question: Explain Y?", "Question:", "**Question:** What?"}

\* The candidates of a response whose quick accessor gives no text.
CandidateChoices ==
    [content : {"", "Explain Z"},
     finish_reason : {NoReason, STOP, MAX_TOKENS, SAFETY},
     safety_ratings : { <<>>, <<[blocked |-> TRUE, category |-> HARASSMENT]>>,
                        <<[blocked |-> FALSE, category |-> HARASSMENT]>> }]

CandidateLists ==
    { <<>> } \cup { <<c>> : c \in CandidateChoices }
             \cup { <<c, d>> : c \in CandidateChoices,
                               d \in {x \in CandidateChoices : x.safety_ratings = <<>>} }

Responses ==
    { [text_raises |-> FALSE, text |-> t,
       candidates |-> <<[content |-> t, finish_reason |-> STOP, safety_ratings |-> <<>>]>>] :
          t \in QuickTexts }
    \cup { [text_raises |-> r[1], text |-> r[2], candidates |-> cs] :
              r \in { <<TRUE, None>>, <<FALSE, None>>, <<FALSE, "">>, <<FALSE, "  ">> },
              cs \in CandidateLists }

NotCalled == [kind |-> "not_called"]
KeyRejected == [kind |-> "raises", message |-> "400 API key not valid. Please pass a valid API key."]
ServiceDown == [kind |-> "raises", message |-> "503 The service is currently unavailable."]

\* What model.generate_content would do for a call with this key.
RemotesFor(api_key) ==
    IF ~KeyAccepted(api_key) THEN {KeyRejected}
    ELSE {ServiceDown} \cup { [kind |-> "returns", response |-> r] : r \in Responses }

\* The record of a call: the remote model has a part in it only if the call got to it.
CallRecord(api_key, prompt_strategy, rendering, remote, result) ==
    [stage |-> "returned", api_key |-> api_key, prompt_strategy |-> prompt_strategy,
     rendering |-> rendering,
     remote |-> IF \E k \in DOMAIN result.steps : result.steps[k] = "generate_content"
                THEN remote ELSE NotCalled,
     result |-> result, shown |-> "none"]

InitLlm ==
    /\ ss = EmptyDict
    /\ qp = EmptyDict
    /\ now = 0
    /\ clockSteps = 0
    /\ env_key = ""
    /\ view = "pending"
    /\ run = [calls |-> <<>>, msg |-> "none", timer |-> NoTimer, nav |-> "none"]
    /\ call = NoCall
    /\ process = NoProcess
    /\ dom = NoDom

\* generate_question is called and returns or raises.
CallGenerateQuestion ==
    /\ call.stage = "none"
    /\ \E api_key \in ApiKeyChoices, prompt_strategy \in StrategyChoices, rendering \in Renderings :
          \E remote \in RemotesFor(api_key) :
              call' = CallRecord(api_key, prompt_strategy, rendering, remote,
                                 generate_question_call(api_key, prompt_strategy, rendering, remote))
    /\ UNCHANGED <<ss, qp, now, clockSteps, env_key, view, run, process, dom>>

\* The except clauses of the practice page show the message for the failure.
ShowError ==
    /\ call.stage = "returned"
    /\ call.result.kind # "ok"
    /\ call' = [call EXCEPT !.stage = "shown",
                            !.shown = ErrorMessage(call.result.kind, call.result.value)]
    /\ UNCHANGED <<ss, qp, now, clockSteps, env_key, view, run, process, dom>>

NextLlm ==
    \/ CallGenerateQuestion
    \/ ShowError

SpecLlm == InitLlm /\ [][NextLlm]_vars

(***************************************************************************)
(* Two sessions of one server process and the safety settings.  The module *)
(* llm_utils is imported once, so its dictionary DEFAULT_SAFETY_SETTINGS   *)
(* is one object for all sessions; a session store holds references.       *)
(* process.heap maps each dictionary object to its content, process.stores *)
(* each session to its store, process.pages each session to its page.      *)
(***************************************************************************)
Sessions == {"A", "B"}

\* Only session A uses the selectboxes; session B takes what it is given.
Choosers == {"A"}

\* The levels a user picks in the model, out of the four of safety_thresholds.
LevelChoices == {"Block None", "Block Some"}

\* safety_categories of the setup page, in order: label and category.
safety_categories ==
    << <<"Harassment", "HARM_CATEGORY_HARASSMENT">>,
       <<"Hate Speech", "HARM_CATEGORY_HATE_SPEECH">>,
       <<"Sexually Explicit", "HARM_CATEGORY_SEXUALLY_EXPLICIT">>,
       <<"Dangerous Content", "HARM_CATEGORY_DANGEROUS_CONTENT">> >>

safety_thresholds(level) ==
    CASE level = "Block None" -> "BLOCK_NONE"
      [] level = "Block Few" -> "BLOCK_ONLY_HIGH"
      [] level = "Block Some" -> "BLOCK_MEDIUM_AND_ABOVE"
      [] level = "Block Most" -> "BLOCK_LOW_AND_ABOVE"

\* The content of DEFAULT_SAFETY_SETTINGS when the module is imported.
DEFAULT_SAFETY_SETTINGS ==
    [c \in {safety_categories[i][2] : i \in DOMAIN safety_categories} |-> "BLOCK_MEDIUM_AND_ABOVE"]

DefaultObject == "DEFAULT_SAFETY_SETTINGS"

RECURSIVE SafetySelectboxes(_, _, _)
\* for i, (category_name, category) in enumerate(safety_categories.items()): the selectbox
\* returns its stored value, or "Block Some" (index=2) the first time, and the threshold is
\* written into the dictionary that st.session_state.safety_settings refers to.
SafetySelectboxes(i, heap, store) ==
    IF i > Len(safety_categories) THEN [heap |-> heap, store |-> store]
    ELSE SafetySelectboxes(i + 1,
            [heap EXCEPT ![store["safety_settings"]][safety_categories[i][2]] =
                safety_thresholds(Get(store, "safety_" \o safety_categories[i][1], "Block Some"))],
            Put(store, "safety_" \o safety_categories[i][1],
                Get(store, "safety_" \o safety_categories[i][1], "Block Some")))

\* if 'safety_settings' not in st.session_state:
\*     st.session_state.safety_settings = DEFAULT_SAFETY_SETTINGS
\* The store is given the dictionary itself, not a copy.
SetupSafetyDefault(store) == SetDefault(store, "safety_settings", DefaultObject)

\* The safety settings part of a render of the setup page.
SetupSafety(heap, store) == SafetySelectboxes(1, heap, SetupSafetyDefault(store))

\* required_state of practice_session: 'safety_settings': DEFAULT_SAFETY_SETTINGS.copy(),
\* stored if the key is missing.  The copy is a new object, named after the session.
PracticeSafety(heap, store, X) ==
    IF Has(store, "safety_settings") THEN [heap |-> heap, store |-> store]
    ELSE [heap |-> Put(heap, "copy of " \o X, heap[DefaultObject]),
          store |-> Put(store, "safety_settings", "copy of " \o X)]

\* effective_safety = safety_settings or DEFAULT_SAFETY_SETTINGS, for a call from session X
effective_safety(p, X) ==
    IF Has(p.stores[X], "safety_settings") THEN p.heap[p.stores[X]["safety_settings"]]
    ELSE p.heap[DefaultObject]

InitSessions ==
    /\ ss = EmptyDict
    /\ qp = EmptyDict
    /\ now = 0
    /\ clockSteps = 0
    /\ env_key = ""
    /\ view = "pending"
    /\ run = [calls |-> <<>>, msg |-> "none", timer |-> NoTimer, nav |-> "none"]
    /\ call = NoCall
    /\ process = [stage |-> "serving",
                  heap |-> Put(EmptyDict, DefaultObject, DEFAULT_SAFETY_SETTINGS),
                  stores |-> [X \in Sessions |-> EmptyDict],
                  pages |-> [X \in Sessions |-> "none"]]
    /\ dom = NoDom

\* The process after a run of session X that left heap and store r and page pg.
AfterRun(X, r, pg) ==
    /\ process' = [process EXCEPT !.heap = r.heap, !.stores[X] = r.store, !.pages[X] = pg]
    /\ UNCHANGED <<ss, qp, now, clockSteps, env_key, view, run, call, dom>>

\* Session X renders the setup page: it opens the application, or the page reruns.
RenderSetupIn(X) ==
    /\ process.pages[X] \in {"none", "setup"}
    /\ AfterRun(X, SetupSafety(process.heap, process.stores[X]), "setup")

\* Session X picks a level in one of the four selectboxes, which reruns the setup page.
SelectThresholdIn(X) ==
    /\ X \in Choosers
    /\ process.pages[X] = "setup"
    /\ \E i \in DOMAIN safety_categories, level \in LevelChoices :
          /\ process.stores[X]["safety_" \o safety_categories[i][1]] # level
          /\ AfterRun(X, SetupSafety(process.heap,
                                     Put(process.stores[X], "safety_" \o safety_categories[i][1], level)),
                      "setup")

\* Session X renders the practice page: it starts practice, or opens ?page=practice.
RenderPracticeIn(X) ==
    /\ process.pages[X] \in {"none", "setup"}
    /\ AfterRun(X, PracticeSafety(process.heap, process.stores[X], X), "practice")

\* Session X goes back to setup: st.session_state.clear(), then the setup page.
BackToSetupIn(X) ==
    /\ process.pages[X] = "practice"
    /\ AfterRun(X, SetupSafety(process.heap, EmptyDict), "setup")

SessionStep(X) == RenderSetupIn(X) \/ SelectThresholdIn(X) \/ RenderPracticeIn(X) \/ BackToSetupIn(X)

RenderSetup == \E X \in Sessions : RenderSetupIn(X)
SelectThreshold == \E X \in Sessions : SelectThresholdIn(X)
RenderPractice == \E X \in Sessions : RenderPracticeIn(X)
BackToSetup == \E X \in Sessions : BackToSetupIn(X)

NextSessions ==
    \/ RenderSetup
    \/ SelectThreshold
    \/ RenderPractice
    \/ BackToSetup

SpecSessions == InitSessions /\ [][NextSessions]_vars

(***************************************************************************)
(* The hosting page between two runs of the script: the answer field of    *)
(* the question on screen, the script practice_session writes into the     *)
(* page, the countdown frame and the audio panel frame.  The frames post   *)
(* messages to the page, the page's listener handles them one at a time.   *)
(***************************************************************************)
MaxQueue == 3
MaxCountdown == 2

\* what the speech recognition can hear
SpeechTexts == {"a", " b"}

\* f"response-area-{idx}" for idx in 0 .. NumQuestions - 1
ResponseContainerIds ==
    <<"response-area-0", "response-area-1", "response-area-2", "response-area-3", "response-area-4">>

response_container_id(idx) == ResponseContainerIds[idx + 1]

TimerLock(idx) == [type |-> "timer-lock", index |-> idx]
StreamlitRerun == [type |-> "streamlit:rerun"]
AudioTranscript(target, text) == [type |-> "audio-transcript", targetId |-> target, value |-> text]
NoMessage == [type |-> "none"]

\* The page as one run renders it: the text area (disabled when the question is locked or
\* the answer is hidden), the page script up to the registration of its listener, the
\* countdown and, for an unlocked question answered by voice, the audio panel, which
\* relays its initial text at once.
RenderedPage(idx, remaining, audio_only, current_answer) ==
    LET current_locked == remaining = 0
        panel == audio_only /\ ~current_locked
    IN  [stage |-> "page",
         index |-> idx,
         current_locked |-> current_locked,
         audioOnly |-> audio_only,
         value |-> current_answer,
         disabled |-> current_locked \/ panel,
         readonly |-> current_locked \/ audio_only,
         isLocked |-> current_locked,
         remaining |-> remaining,
         interval |-> remaining > 0,
         panel |-> panel,
         listening |-> FALSE,
         transcript |-> IF panel THEN current_answer ELSE "",
         queue |-> IF panel /\ Truthy(current_answer)
                   THEN <<AudioTranscript(response_container_id(idx), current_answer)>>
                   ELSE <<>>,
         handled |-> NoMessage]

syncValue(d, text) == [d EXCEPT !.value = text]

lockTextarea(d) == [d EXCEPT !.isLocked = TRUE, !.readonly = TRUE, !.disabled = TRUE]

enforceAudioOnly(d) ==
    IF d.isLocked THEN d
    ELSE [d EXCEPT !.readonly = d.audioOnly]

\* the listener of the page script, on one message
OnMessage(d, m) ==
    LET locked == IF m.type = "timer-lock" /\ m.index = d.index THEN lockTextarea(d) ELSE d
    IN  IF m.type = "audio-transcript" /\ m.targetId = response_container_id(d.index)
        THEN enforceAudioOnly(syncValue(locked, m.value))
        ELSE locked

Post(d, messages) == [d EXCEPT !.queue = d.queue \o messages]

InitDom ==
    /\ ss = EmptyDict
    /\ qp = EmptyDict
    /\ now = 0
    /\ clockSteps = 0
    /\ env_key = ""
    /\ view = "answering"
    /\ run = [calls |-> <<>>, msg |-> "none", timer |-> NoTimer, nav |-> "none"]
    /\ call = NoCall
    /\ process = NoProcess
    /\ \E idx \in {0, 1}, remaining \in 0..MaxCountdown, audio_only \in BOOLEAN,
          current_answer \in AnswerTexts :
          dom = RenderedPage(idx, remaining, audio_only, current_answer)

DomStep(d) == dom' = d /\ UNCHANGED <<ss, qp, now, clockSteps, env_key, view, run, call, process>>

\* one second of the countdown frame
CountdownTick ==
    /\ dom.interval
    /\ Len(dom.queue) + 2 <= MaxQueue
    /\ LET remaining == Max(dom.remaining - 1, 0)
       IN  IF remaining = 0
           THEN DomStep(Post([dom EXCEPT !.remaining = 0, !.interval = FALSE],
                             <<TimerLock(dom.index), StreamlitRerun>>))
           ELSE DomStep([dom EXCEPT !.remaining = remaining])

\* the button of the audio panel
ToggleRecording ==
    /\ dom.panel
    /\ DomStep([dom EXCEPT !.listening = ~dom.listening])

\* a result of the speech recognition of the audio panel
SpeechResult ==
    /\ dom.panel
    /\ dom.listening
    /\ Len(dom.queue) < MaxQueue
    /\ \E combined \in SpeechTexts :
          DomStep(Post([dom EXCEPT !.transcript = strip(combined)],
                       <<AudioTranscript(response_container_id(dom.index), strip(combined))>>))

\* a message of a frame that belongs to another question
OtherFrameMessage ==
    /\ Len(dom.queue) < MaxQueue
    /\ LET other == 1 - dom.index
       IN  \E m \in {TimerLock(other), AudioTranscript(response_container_id(other), "b")} :
              DomStep(Post(dom, <<m>>))

\* the page handles the oldest message
DeliverMessage ==
    /\ dom.queue # <<>>
    /\ DomStep([OnMessage(dom, Head(dom.queue)) EXCEPT !.queue = Tail(dom.queue),
                                                       !.handled = Head(dom.queue)])

NextDom ==
    \/ CountdownTick
    \/ ToggleRecording
    \/ SpeechResult
    \/ OtherFrameMessage
    \/ DeliverMessage

SpecDom == InitDom /\ [][NextDom]_vars

(***************************************************************************)
(* Properties.  A step of a run leaves the clock alone, and a step of the   *)
(* clock leaves everything else alone: RunStep tells the two apart.         *)
(***************************************************************************)
RunStep == clockSteps' = clockSteps

\* The page the `page` query parameter names.
PageNamed(q) == IF Has(q, "page") /\ q["page"] = "practice" THEN "practice" ELSE "setup"

\* C1: whenever handle_practice_navigation returns, it reports the practice page if and
\* only if the `page` query parameter equals "practice", and the setup page for any other
\* value or an absent parameter, whatever the session store holds; so the page on screen
\* is always the page the URL names.
C1_NavigationReportsPage ==
    /\ [][RunStep => run'.nav = PageNamed(qp)]_vars
    /\ [](view \in {"answering", "finished", "error", "no_questions"} => PageNamed(qp) = "practice")
    /\ [](view = "setup" => PageNamed(qp) = "setup" /\ run.nav = "setup")

\* C1 at work: a `page` parameter other than "practice", a store that is not empty, and
\* the setup page reported.
C1_Witness ==
    /\ Has(qp, "page") /\ qp["page"] = "other"
    /\ run.nav = "setup"
    /\ view = "setup"
    /\ ss["role"] = "Nurse"

\* START PRACTICE pressed with a role and a usable key: main sets the start-requested
\* flag and calls handle_practice_navigation with it.
StartRequested ==
    /\ ClickStart
    /\ ss'["role"] # ""
    /\ api_key_available(ss', env_key)

\* C2: when handle_practice_navigation runs with the start-requested flag set, afterwards
\* the flag is false, the query parameters are the old ones updated with page=practice and
\* the round, difficulty, role and company selected in the session, and the run ends in a
\* re-render; when the flag is not set, the flag and the query parameters stay as they are
\* (the query parameters change otherwise only when Back to Setup clears them).
C2_StartTransition ==
    [][RunStep =>
        IF StartRequested
        THEN /\ Has(ss', "start_practice") /\ ss'["start_practice"] = FALSE
             /\ qp' = Update(qp, [page |-> "practice",
                                  round |-> ss'["round_radio"],
                                  difficulty |-> ss'["difficulty_radio"],
                                  role |-> ss'["role"],
                                  company |-> ss'["company"]])
             /\ view' = "pending"
        ELSE /\ Get(ss', "start_practice", FALSE) = Get(ss, "start_practice", FALSE)
             /\ qp' = qp \/ (ClickBackToSetup /\ qp' = EmptyDict)]_vars

\* C2 at work: the state a start request leaves, with the selections in the URL.
C2_Witness ==
    /\ view = "pending"
    /\ Has(ss, "start_practice") /\ ss["start_practice"] = FALSE
    /\ Has(qp, "company") /\ qp["company"] = "Acme"
    /\ qp["page"] = "practice" /\ qp["role"] = "Nurse" /\ qp["round"] = "Warm Up"
    /\ qp["difficulty"] = "Beginner"


\* The results of the calls of a run, in call order.
CallValues(calls) == [k \in 1..Len(calls) |-> calls[k].value]

AllOk(calls) == \A k \in 1..Len(calls) : calls[k].kind = "ok"

Questions(s) == Get(s, "questions", <<>>)

\* C3: a run that enters the practice flow with an empty question set calls
\* generate_question, one call after another and at most 5 times, and the k-th call is
\* given exactly the results of calls 1..k-1 in order; when no call fails there are
\* exactly 5 calls, their results are stored in call order, and the next render shows
\* question index 0.
C3_GenerationCalls ==
    /\ [](run.calls # <<>> =>
            /\ Len(run.calls) <= NumQuestions
            /\ \A k \in 1..Len(run.calls) :
                  run.calls[k].previous_questions = SubSeq(CallValues(run.calls), 1, k - 1)
            /\ AllOk(run.calls) =>
                  /\ Len(run.calls) = NumQuestions
                  /\ Questions(ss) = CallValues(run.calls)
                  /\ ss["current_question_index"] = 0
                  /\ view = "pending")
    /\ [][RunStep /\ view = "pending" /\ WillGenerate => run'.calls # <<>>]_vars
    /\ [][RunStep /\ run.calls # <<>> /\ AllOk(run.calls) =>
            view' = "answering" /\ run'.timer.index = 0]_vars

\* C3 at work: the state a successful generation leaves.
C3_Witness ==
    /\ view = "pending"
    /\ Len(run.calls) = 5
    /\ run.calls[5].previous_questions = <<"qa", "qb", "qc", "qd">>
    /\ Questions(ss) = <<"qa", "qb", "qc", "qd", "qe">>

\* C4: in every reachable state the stored question set is empty or has exactly 5
\* questions.
C4_QuestionSetLength == Len(Questions(ss)) \in {0, NumQuestions}

\* C4 at work: the fifth call of a generation has failed, after four questions had been
\* generated, and no question is stored.
C4_Witness ==
    /\ Len(run.calls) = 5
    /\ run.calls[4].kind = "ok"
    /\ run.calls[5].kind # "ok"
    /\ Has(ss, "questions") /\ ss["questions"] = <<>>

\* C5: once a non-empty question set is stored, no run calls generate_question and no
\* run changes the stored questions, except that Start New Interview and Back to Setup
\* remove them (and only then are questions generated again).
C5_CachedQuestions ==
    [][RunStep /\ Questions(ss) # <<>> =>
        /\ run'.calls = <<>>
        /\ \/ Has(ss', "questions") /\ ss'["questions"] = ss["questions"]
           \/ (ClickStartNew \/ ClickBackToSetup) /\ ~Has(ss', "questions")]_vars

\* C5 at work: questions cached, an answer typed, the third question on screen.
C5_Witness ==
    /\ view = "answering"
    /\ Questions(ss) = <<"qa", "qb", "qc", "qd", "qe">>
    /\ ss["current_question_index"] = 2
    /\ run.calls = <<>>
    /\ \E i \in DOMAIN ss["answers"] : ss["answers"][i] = "a"

\* C6: when a generation call fails, it is the last call of the run (the remaining calls
\* are not made), no question is stored afterwards, and the run ends in the error state
\* with a message.
C6_FailedGeneration ==
    \A k \in 1..Len(run.calls) :
        run.calls[k].kind # "ok" =>
            /\ k = Len(run.calls)
            /\ Has(ss, "questions") /\ ss["questions"] = <<>>
            /\ view = "error"
            /\ run.msg # "none"

\* C6 at work: the third call has failed after two questions had been generated.
C6_Witness ==
    /\ view = "error"
    /\ Len(run.calls) = 3
    /\ run.calls[1].kind = "ok" /\ run.calls[2].kind = "ok"
    /\ run.calls[3].kind = "RuntimeError"
    /\ ss["questions"] = <<>>

\* C7: a run whose generation failed stops in the error state; the run after it is never
\* the automatic one and makes no generation call (it is started by the user, with CANCEL);
\* and every call of generate_question makes at most one remote call.
C7_NoAutomaticRetry ==
    /\ [](\A k \in 1..Len(run.calls) : run.calls[k].remote_calls <= 1)
    /\ [](run.msg # "none" => view = "error")
    /\ [][run.msg # "none" => ~Rerun /\ ClickCancel /\ run'.calls = <<>>]_vars

\* C7 at work: the remote call of the first generate_question call has failed.
C7_Witness ==
    /\ view = "error"
    /\ run.msg = "generic"
    /\ Len(run.calls) = 1
    /\ run.calls[1].value = "remote_exception"
    /\ run.calls[1].remote_calls = 1


Index(s) == Get(s, "current_question_index", 0)

Finished(s) == Get(s, "finished", FALSE)

\* C8: while a question set is stored, the current question index is in 0..4; Previous
\* can be clicked only at an index above 0 and moves to the index below, Next only at
\* an index below 4 and moves to the index above, and the index changes in no other way
\* except that a reset (Start New Interview, Back to Setup) puts it back to 0.
C8_IndexInRange ==
    /\ [](Questions(ss) # <<>> => Index(ss) \in 0..(NumQuestions - 1))
    /\ [][RunStep /\ Questions(ss) # <<>> =>
            /\ ClickPrevious => Index(ss) > 0 /\ Index(ss') = Index(ss) - 1
            /\ ClickNext => Index(ss) < NumQuestions - 1 /\ Index(ss') = Index(ss) + 1
            /\ Index(ss') # Index(ss) =>
                  \/ ClickPrevious
                  \/ ClickNext
                  \/ (ClickStartNew \/ ClickBackToSetup) /\ Index(ss') = 0]_vars

\* C8 at work: the last question on screen, reached with Next through all the others.
C8_Witness ==
    /\ view = "answering"
    /\ Index(ss) = 4
    /\ DOMAIN ss["question_timers"] = 0..4
    /\ run.timer.index = 4

\* C9: the finished flag becomes true only in a run started by Finish Interview, at the
\* last question index; and in every state where the interview is finished both stored
\* audio flags are false.
C9_FinishedOnlyByFinish ==
    /\ [](Finished(ss) =>
            /\ Has(ss, "audio_mode_enabled") /\ ss["audio_mode_enabled"] = FALSE
            /\ Has(ss, "audio_checkbox") /\ ss["audio_checkbox"] = FALSE)
    /\ [][~Finished(ss) /\ Finished(ss') =>
            /\ ClickFinish
            /\ Index(ss) = Len(Questions(ss)) - 1
            /\ Index(ss) = NumQuestions - 1]_vars

\* C9 at work: the summary of an interview opened by URL in a round that has audio on
\* by default.
C9_Witness ==
    /\ view = "finished"
    /\ Finished(ss)
    /\ ~Has(ss, "role_input")
    /\ Has(qp, "round") /\ qp["round"] = "Warm Up"
    /\ ss["audio_checkbox"] = FALSE /\ ss["audio_mode_enabled"] = FALSE

\* The whole seconds elapsed between two clock readings, none when the clock reads
\* earlier than the start.
WholeSecondsElapsed(start, time) ==
    IF time < start THEN 0 ELSE (time - start) \div TicksPerSecond

\* C10: the remaining time a render of the answering view shows is the time allotted
\* minus the whole seconds elapsed since the start time of the question, kept within
\* 0 .. allotted: exactly allotted - elapsed while elapsed < allotted, and 0 from then on.
C10_RemainingTime ==
    run.timer.index # -1 =>
        LET allotted == run.timer.per_question_seconds
            elapsed == WholeSecondsElapsed(ss["question_timers"][run.timer.index], run.timer.time)
        IN /\ 0 <= run.timer.remaining /\ run.timer.remaining <= allotted
           /\ elapsed < allotted => run.timer.remaining = allotted - elapsed
           /\ elapsed >= allotted => run.timer.remaining = 0

\* C10 at work: a render at the very moment the time allotted has elapsed.
C10_Witness ==
    /\ run.timer.index # -1
    /\ run.timer.per_question_seconds > 0
    /\ run.timer.time - ss["question_timers"][run.timer.index]
          = run.timer.per_question_seconds * TicksPerSecond
    /\ run.timer.remaining = 0

\* The round and difficulty of the practice session, as the practice page reads them.
RoundType(q) == Get(q, "round", "Coding")

Difficulty(q) == Get(q, "difficulty", "Professional")

IsCoding(q) == RoundType(q) \in {"Coding", "coding"}

\* C11: the time allotted to a question is 900 seconds when the round type is Coding,
\* for either difficulty; for any other round type it is 180 seconds for Beginner and
\* 300 seconds for Professional.
C11_AllottedTime ==
    run.timer.index # -1 =>
        /\ IsCoding(qp) => run.timer.per_question_seconds = 900
        /\ ~IsCoding(qp) /\ Difficulty(qp) = "Beginner" => run.timer.per_question_seconds = 180
        /\ ~IsCoding(qp) /\ Difficulty(qp) = "Professional" => run.timer.per_question_seconds = 300

\* C11 at work: a Coding round at Beginner level, configured on the setup page, on screen.
C11_Witness ==
    /\ view = "answering"
    /\ Has(qp, "round") /\ qp["round"] = "Coding"
    /\ Has(qp, "difficulty") /\ qp["difficulty"] = "Beginner"
    /\ run.timer.per_question_seconds = 900

Answers(s) == Get(s, "answers", EmptyDict)

Locked(s, i) == Get(Get(s, "question_locked", EmptyDict), i, FALSE)

\* The time allotted to question i has run out on the clock (whether or not a render
\* has seen it yet).
Expired(i) ==
    /\ i \in DOMAIN Get(ss, "question_timers", EmptyDict)
    /\ now - ss["question_timers"][i] >= Allotted(qp) * TicksPerSecond

\* C12: for every question index i, once the time elapsed since its start time has
\* reached the time allotted, a run of the answering view leaves answers[i] with the
\* content it had, and locks the question it renders.
C12_ExpiredAnswerKept ==
    [][RunStep /\ view = "answering" =>
        \A i \in 0..(NumQuestions - 1) :
            Expired(i) =>
                /\ Get(Answers(ss'), i, "") = Get(Answers(ss), i, "")
                /\ i = Index(ss) => Locked(ss', i)]_vars

\* What the code does guarantee: an answer changes no more once a render has stored
\* the lock of its question.
C12_LockedAnswerKept ==
    [][RunStep /\ view = "answering" =>
        \A i \in 0..(NumQuestions - 1) :
            Locked(ss, i) => Get(Answers(ss'), i, "") = Get(Answers(ss), i, "")]_vars

\* The state the failing run leaves: the question is locked, and holds an answer that
\* the render which found the time expired has just stored.
C12_Witness ==
    /\ Locked(ss, 0)
    /\ Get(Answers(ss), 0, "") = "a"
    /\ run.timer.index = 0 /\ run.timer.remaining = 0
    /\ DOMAIN ss["question_timers"] = {0}

\* C13: in every render of the answering view of a Coding round, audio is not enabled,
\* the audio capture panel is not rendered and the answer text area is not hidden,
\* whatever the stored audio flags are and whether or not the question is locked.
C13_CodingHasNoAudio ==
    run.timer.index # -1 /\ IsCoding(qp) =>
        /\ ~run.timer.audio_enabled
        /\ ~run.timer.audio_panel
        /\ ~run.timer.hidden

\* C13 at work: a Coding round rendered, unlocked, with both stored flags saying audio on.
C13_Witness ==
    /\ view = "answering"
    /\ IsCoding(qp)
    /\ run.timer.index = 0 /\ run.timer.remaining > 0
    /\ Has(ss, "audio_mode_enabled") /\ ss["audio_mode_enabled"]
    /\ Has(ss, "audio_checkbox") /\ ss["audio_checkbox"]
    /\ ~run.timer.hidden

\* The round type in force: the one the URL names on the practice page, the one picked
\* on the setup page.
ActiveRoundIsCoding ==
    IF PageNamed(qp) = "practice" THEN IsCoding(qp)
    ELSE Get(ss, "round_radio", "Warm Up") = "Coding"

C15_FinishedSnapshot ==
    /\ [][RunStep /\ Finished(ss) /\ Finished(ss') =>
            /\ DOMAIN Answers(ss') = 0..(NumQuestions - 1)
            /\ \A i \in 0..(NumQuestions - 1) :
                  Answers(ss')[i] = IF Has(ss, widget_key(i)) THEN ss[widget_key(i)]
                                    ELSE Get(Answers(ss), i, "")]_vars
    /\ [][RunStep /\ view = "finished" =>
            /\ ~(EditAnswer \/ ClickPrevious \/ ClickNext \/ ClickNewQuestion \/ ClickFinish)
            /\ Finished(ss') => Answers(ss') = Answers(ss) /\ Index(ss') = Index(ss)]_vars
    /\ [](view = "finished" => \A i \in 0..(NumQuestions - 1) : ~Has(ss, widget_key(i)))

\* C15 at work: the summary on screen, with a typed answer among the five recorded.
C15_Witness ==
    /\ view = "finished"
    /\ Finished(ss)
    /\ DOMAIN Answers(ss) = 0..4
    /\ \E i \in 0..3 : Answers(ss)[i] = "a"

\* The role text contains "engineer", whatever its case.
RoleHasEngineer(q) == "engineer" \in keywords_in(lower(Get(q, "role", "Software Engineer")))

\* C16: in the finished summary, whenever the role text contains "engineer", the feedback
\* is the acknowledgment, the nudge exactly when the average answer length is below 100,
\* and the software-engineer tips rather than the generic ones.
C16_EngineerFeedback ==
    [](view = "finished" /\ RoleHasEngineer(qp) =>
          /\ feedback(ss, qp).acknowledgment
          /\ feedback(ss, qp).nudge <=>
                (TotalLength(Answers(ss), NumQuestions) < 100 * NumQuestions)
          /\ feedback(ss, qp).tips = "software engineer")

\* C16 at work: the summary of an interview for a role that contains "engineer" and is
\* not "Software Engineer".
C16_Witness ==
    /\ view = "finished"
    /\ RoleHasEngineer(qp)
    /\ Has(qp, "role") /\ qp["role"] = "Data Engineer"
    /\ feedback(ss, qp).tips = GenericTips

\* C17: the run of Start New Interview leaves no question set, no question index (so the
\* index reads 0), no timer map, no lock map, no finished flag and no audio flag in the
\* store, keeps the query parameters, so the page stays practice, and ends in a rerun;
\* the render that follows calls the generator and, when no call fails, stores 5 questions
\* with index 0.
C17_StartNewInterview ==
    [][ClickStartNew =>
        /\ \A k \in {"questions", "current_question_index", "question_timers",
                     "question_locked", "finished", "audio_mode_enabled", "audio_checkbox"} :
              ~Has(ss', k)
        /\ Questions(ss') = <<>> /\ Index(ss') = 0 /\ ~Finished(ss')
        /\ qp' = qp /\ PageNamed(qp') = "practice"
        /\ view' = "pending"
        /\ \A remote \in RemoteChoices :
              LET r == main(ss', qp', now', env_key', "rerun", remote)
              IN /\ r.calls # <<>>
                 /\ r.calls[1].previous_questions = <<>>
                 /\ AllOk(r.calls) =>
                       /\ Len(r.calls) = NumQuestions
                       /\ Questions(r.ss) = CallValues(r.calls)
                       /\ Index(r.ss) = 0
                       /\ ~Finished(r.ss)]_vars

\* C17 at work: the store just after Start New Interview, which alone leaves recorded
\* answers without a question set.
C17_Witness ==
    /\ view = "pending"
    /\ PageNamed(qp) = "practice"
    /\ Has(ss, "answers") /\ DOMAIN ss["answers"] = 0..4
    /\ ~Has(ss, "questions") /\ ~Has(ss, "finished") /\ ~Has(ss, "current_question_index")

\* The first question of the interview that follows a store s, once generated and rendered.
NewInterviewShown(s, q, tnow, envk) ==
    main(main(s, q, tnow, envk, "rerun", NoRemote).ss, q, tnow, envk, "rerun", NoRemote)

\* C18: the run of Start New Interview leaves no answer text of the finished interview
\* bound to any question index 0..4, so the first question of the new interview is shown
\* with an empty answer and no answer is recorded for the questions to come.
C18_NoOldAnswers ==
    [][ClickStartNew =>
        /\ \A i \in 0..(NumQuestions - 1) :
              Get(Answers(ss'), i, "") = "" /\ Get(ss', widget_key(i), "") = ""
        /\ NewInterviewShown(ss', qp', now', env_key').view = "answering"
        /\ \A i \in 0..(NumQuestions - 1) :
              /\ Get(Answers(NewInterviewShown(ss', qp', now', env_key').ss), i, "") = ""
              /\ Get(NewInterviewShown(ss', qp', now', env_key').ss, widget_key(i), "") = ""]_vars

\* C18 at work: the first question of a second interview on screen, its timer the only one
\* started, with a non-empty answer recorded for a question not yet reached.
C18_Witness ==
    /\ view = "answering"
    /\ Index(ss) = 0
    /\ DOMAIN ss["question_timers"] = {0}
    /\ \E i \in 1..(NumQuestions - 1) : Get(Answers(ss), i, "") = "a"

\* C19: the run of Back to Setup leaves the session store empty (no questions, answers,
\* timers, locks, finished flag, configuration or API key) and the query parameters
\* empty, and ends in a rerun; the render that follows shows the setup page and calls no
\* generator.
C19_BackToSetup ==
    [][ClickBackToSetup =>
        /\ ss' = EmptyDict
        /\ DOMAIN ss' = {}
        /\ qp' = EmptyDict
        /\ view' = "pending"
        /\ main(ss', qp', now', env_key', "rerun", NoRemote).view = "setup"
        /\ main(ss', qp', now', env_key', "rerun", NoRemote).nav = "setup"
        /\ main(ss', qp', now', env_key', "rerun", NoRemote).calls = <<>>]_vars

\* C19 at work: the empty store and URL left by a run of the practice page.
C19_Witness ==
    /\ ss = EmptyDict
    /\ qp = EmptyDict
    /\ view = "pending"
    /\ run.nav = "practice"

\* What a run without any click would leave, from the present state.
PlainRender == main(ss, qp, now, env_key, "rerun", NoRemote)

\* C20: New Question can be clicked only at an index below the last, where Finish cannot;
\* the run of the click leaves the question set, the index, the timer map, the lock map
\* and the finished flag (indeed the whole store and the view) as a run without a click
\* would leave them, with the questions, the index and the finished flag as they were,
\* and it makes no generation call.
C20_NewQuestionIsPlainRender ==
    /\ [][ClickNewQuestion =>
            /\ Index(ss) < Len(Questions(ss)) - 1
            /\ ~ENABLED ClickFinish
            /\ \A k \in {"questions", "current_question_index", "question_timers",
                         "question_locked", "finished"} :
                  /\ Has(ss', k) <=> Has(PlainRender.ss, k)
                  /\ Has(ss', k) => ss'[k] = PlainRender.ss[k]
            /\ ss' = PlainRender.ss
            /\ view' = PlainRender.view
            /\ Questions(ss') = Questions(ss)
            /\ Index(ss') = Index(ss)
            /\ Finished(ss') = Finished(ss)
            /\ run'.calls = <<>>]_vars
    /\ [][ClickFinish => ~(Index(ss) < Len(Questions(ss)) - 1)]_vars

\* C20 at work: the answering view with New Question on offer and the question on screen
\* locked, its time having run out.
C20_Witness ==
    /\ view = "answering"
    /\ Index(ss) = 1
    /\ NewQuestionOffered(Index(ss), Len(Questions(ss)))
    /\ Locked(ss, 1)
    /\ run.calls = <<>>

\* A call of generate_question has ended.
Returned == call.stage \in {"returned", "shown"}

\* C21: a call of generate_question with an empty or missing api_key raises ValueError
\* with the missing-key message before any step of the try block (configuring the client,
\* building the prompt, calling the remote model), and the error does not carry the
\* wrapper of a generation failure.
C21_MissingKeyFailsFirst ==
    [](Returned /\ ~Truthy(call.api_key) =>
          /\ call.result.kind = "ValueError"
          /\ call.result.value = MissingKeyMessage
          /\ call.result.steps = <<>>
          /\ call.remote = NotCalled
          /\ ~startswith(call.result.value, WrapperPrefix))

\* C21 at work: a call without a key has returned, whatever the strategy.
C21_Witness ==
    /\ Returned
    /\ call.api_key = ""
    /\ call.prompt_strategy = "unknown-strategy"
    /\ call.result.kind = "ValueError"

\* What session X observes of the safety settings: those a call of its own would use.
Observed(p, X) == effective_safety(p, X)

OtherSession(X) == CHOOSE Y \in Sessions : Y # X

\* C22: no step of one session changes what the other session observes; whatever session
\* A renders and selects, the dictionary DEFAULT_SAFETY_SETTINGS of the process keeps
\* block-medium-and-above for all four categories, and session B, which has chosen
\* nothing, has exactly these settings.
C22_SessionsIsolated ==
    /\ [](process.heap[DefaultObject] = DEFAULT_SAFETY_SETTINGS)
    /\ [](process.pages["B"] # "none" => effective_safety(process, "B") = DEFAULT_SAFETY_SETTINGS)
    /\ [][\A X \in Sessions :
            SessionStep(X) =>
                Observed(process', OtherSession(X)) = Observed(process, OtherSession(X))]_vars

\* C22 at work: session A has picked "Block None" for harassment, and session B, which has
\* picked nothing, is on the practice page with settings that are not the default ones.
C22_Witness ==
    /\ process.stage = "serving"
    /\ process.pages["B"] = "practice"
    /\ Get(process.stores["A"], "safety_Harassment", "") = "Block None"
    /\ \A k \in DOMAIN process.stores["B"] : k = "safety_settings"
    /\ effective_safety(process, "B")["HARM_CATEGORY_HARASSMENT"] = "BLOCK_NONE"

\* The response that a returned call was given, if the remote model gave one.
HasResponse == Returned /\ call.remote.kind = "returns"

\* The texts that the candidates of a response carry.
CandidateTexts(response) ==
    {response.candidates[i].content : i \in DOMAIN response.candidates} \ {""}

\* C23: text extraction returns the stripped consolidated text when the accessor gives a
\* non-blank one; when the accessor raises or gives no text and some candidate carries
\* text, it returns the text of a candidate; it returns empty text only when neither the
\* accessor nor any candidate has text.
C23_ExtractionFallsBack ==
    [](HasResponse =>
          /\ Truthy(QuickText(call.remote.response)) =>
                call.result.extracted = strip(call.remote.response.text)
          /\ ~Truthy(QuickText(call.remote.response))
                /\ CandidateTexts(call.remote.response) # {} =>
                call.result.extracted \in CandidateTexts(call.remote.response)
          /\ call.result.extracted = "" =>
                ~Truthy(QuickText(call.remote.response))
                /\ CandidateTexts(call.remote.response) = {})

\* C23 at work: the accessor has raised, a candidate carries a text, and the extraction
\* has given the empty text, so the call has failed.
C23_Witness ==
    /\ HasResponse
    /\ call.remote.response.text_raises
    /\ "Explain Z" \in CandidateTexts(call.remote.response)
    /\ call.result.extracted = ""
    /\ call.result.kind = "RuntimeError"

\* A returned call whose response had no text to extract.
NoTextExtracted == HasResponse /\ ~Truthy(call.result.extracted)

\* What the candidates of a response indicate.
IndicatesTokenLimit(response) ==
    \E i \in DOMAIN response.candidates : response.candidates[i].finish_reason = MAX_TOKENS

IndicatesBlock(response) ==
    \E i \in DOMAIN response.candidates :
        \/ response.candidates[i].finish_reason = SAFETY
        \/ \E k \in DOMAIN response.candidates[i].safety_ratings :
              response.candidates[i].safety_ratings[k].blocked

\* C24: for a response without extractable text generate_question fails with the
\* token-limit message when a finish reason is the token limit, otherwise with the safety
\* message when a finish reason or a safety rating tells of a block, otherwise with the
\* message of an unknown empty response; and it gives the token-limit message only when
\* a finish reason is the token limit.
C24_EmptyResponseClassified ==
    [](NoTextExtracted =>
          /\ call.result.kind = "RuntimeError"
          /\ call.result.value \in
                {WrapperPrefix \o TokenLimitMessage, WrapperPrefix \o SafetyMessage}
                \/ startswith(call.result.value, WrapperPrefix \o EmptyResponseMessage)
          /\ IndicatesTokenLimit(call.remote.response) <=>
                call.result.value = WrapperPrefix \o TokenLimitMessage
          /\ IndicatesBlock(call.remote.response) /\ ~IndicatesTokenLimit(call.remote.response) <=>
                call.result.value = WrapperPrefix \o SafetyMessage)

\* C24 at work: the only candidate has stopped for safety, without a blocked rating, the
\* runtime renders the finish reason as its number, and the call has failed with the
\* message of an unknown empty response.
C24_Witness ==
    /\ NoTextExtracted
    /\ call.rendering = "number"
    /\ Len(call.remote.response.candidates) = 1
    /\ call.remote.response.candidates[1].finish_reason = SAFETY
    /\ call.remote.response.candidates[1].safety_ratings = <<>>
    /\ call.result.value = WrapperPrefix \o EmptyResponseMessage \o "3"

\* The entries of the prefix list that a text starts with.
MatchingPrefixes(text) == {i \in DOMAIN prefixes_to_remove : startswith(text, prefixes_to_remove[i])}

\* The text without the first entry of the prefix list that it starts with, stripped.
WithoutFirstPrefix(text) ==
    IF MatchingPrefixes(text) = {} THEN text
    ELSE LET first == CHOOSE i \in MatchingPrefixes(text) : \A j \in MatchingPrefixes(text) : i <= j
         IN strip(SubSeq(text, Len(prefixes_to_remove[first]) + 1, Len(text)))

\* C25: for every non-empty extracted text the question returned is the stripped text
\* without the first entry of the prefix list that it starts with, that entry removed
\* once and nothing more removed from what is left, and with "?" appended exactly when
\* this cleaned text does not end with "?"; so the question returned ends with "?".
C25_QuestionCleaned ==
    [](Returned /\ Truthy(call.result.extracted) =>
          /\ call.result.kind = "ok"
          /\ endswith(call.result.value, "?")
          /\ endswith(WithoutFirstPrefix(strip(call.result.extracted)), "?") =>
                call.result.value = WithoutFirstPrefix(strip(call.result.extracted))
          /\ ~endswith(WithoutFirstPrefix(strip(call.result.extracted)), "?") =>
                call.result.value = WithoutFirstPrefix(strip(call.result.extracted)) \o "?")

\* C25 at work: a text with two labels in a row and no question mark has lost the first
\* label only and has been given the question mark.
C25_Witness ==
    /\ Returned
    /\ call.result.extracted = "**Q:** Q: Why"
    /\ call.result.value = "Q: Why?"

\* C26: get_prompt_by_strategy with a strategy outside the registry of six keys raises
\* ValueError with a message that names the strategy and lists all six keys, and gives no
\* prompt; generate_question with such a strategy fails with this message, wrapped, and
\* the remote model is not called.
C26_UnknownStrategy ==
    [](Returned /\ Truthy(call.api_key) /\ call.prompt_strategy \notin StrategyKeys =>
          /\ Cardinality(StrategyKeys) = 6
          /\ get_prompt_by_strategy(call.prompt_strategy).kind = "ValueError"
          /\ startswith(get_prompt_by_strategy(call.prompt_strategy).value,
                        "Unknown strategy '" \o call.prompt_strategy \o "'. Available strategies: ")
          /\ \A key \in StrategyKeys :
                contains(key, get_prompt_by_strategy(call.prompt_strategy).value)
          /\ call.result.kind = "RuntimeError"
          /\ call.result.value = WrapperPrefix \o get_prompt_by_strategy(call.prompt_strategy).value
          /\ call.result.steps = BeforePrompt
          /\ call.remote = NotCalled)

\* C26 at work: a call with a good key and the strategy "unknown-strategy" has failed.
C26_Witness ==
    /\ Returned
    /\ call.api_key = "good"
    /\ call.prompt_strategy = "unknown-strategy"
    /\ call.result.value =
          "Gemini question generation failed: Unknown strategy 'unknown-strategy'. Available strategies: zero_shot, few_shot, chain_of_thought, role_based, structured_output, socratic"

\* The class of the failure of a returned call: a missing key or a key the remote service
\* rejects, a response blocked for safety, or anything else.
FailureClass ==
    IF ~Truthy(call.api_key) \/ call.remote = KeyRejected THEN "api_key"
    ELSE IF NoTextExtracted /\ IndicatesBlock(call.remote.response)
                            /\ ~IndicatesTokenLimit(call.remote.response)
    THEN "content_safety"
    ELSE "generic"

\* C27: when a call of generate_question fails in the practice flow, the message shown is
\* the one of the class of the failure: the API-key message for a missing or invalid key,
\* the content-safety message for a response blocked for safety, the generic message for
\* any other failure.
C27_MessageMatchesFailure ==
    [](call.stage = "shown" => call.shown = FailureClass)

\* C27 at work: a call without a key has failed and the practice page has shown the
\* content-safety message for it.
C27_Witness ==
    /\ call.stage = "shown"
    /\ call.api_key = ""
    /\ call.result.value = MissingKeyMessage
    /\ call.shown = "content_safety"

\* The timer-lock message of the question on screen has been delivered to the page.
LockDelivered == dom.stage = "page" /\ dom.isLocked /\ ~dom.current_locked

\* C28: after the timer-lock message of question i has been delivered to the hosting page,
\* no message changes the answer field of question i: a transcript relayed afterwards by
\* the audio panel is dropped and the field keeps the text it had at the lock.
C28_TranscriptDroppedAfterLock ==
    [][LockDelivered => dom'.value = dom.value]_vars

\* C28 at work: the lock has been delivered, the panel is still listening, and the page
\* has handled a transcript of the panel after it.
C28_Witness ==
    /\ LockDelivered
    /\ dom.listening
    /\ dom.handled = AudioTranscript(response_container_id(dom.index), dom.transcript)

\* C29: a locked question stays locked under every run and every move of the clock, and
\* its lock is removed only by Start New Interview or Back to Setup; a question becomes
\* locked only in a run that renders it with a remaining time of 0.
C29_LockMonotonic ==
    /\ [][\A i \in 0..(NumQuestions - 1) :
             Locked(ss, i) /\ ~Locked(ss', i) => ClickStartNew \/ ClickBackToSetup]_vars
    /\ [][\A i \in 0..(NumQuestions - 1) :
             ~Locked(ss, i) /\ Locked(ss', i) =>
                 /\ RunStep
                 /\ view' \in {"answering", "pending"}
                 /\ run'.timer.index = i
                 /\ run'.timer.remaining = 0]_vars

\* C29 at work: the first question was locked, and is still locked while the second
\* question is on screen.
C29_Witness ==
    /\ view = "answering"
    /\ Index(ss) = 1
    /\ Locked(ss, 0)
    /\ ~Locked(ss, 1)

Timers(s) == Get(s, "question_timers", EmptyDict)

\* C30: the start time of question i is stored by the first run that renders question i,
\* as the time of that run; no run and no move of the clock changes or removes it, except
\* Start New Interview and Back to Setup; and every render of question i computes the
\* remaining time from that start time, however long other questions have been on screen.
C30_TimerStartedOnce ==
    /\ [][\A i \in DOMAIN Timers(ss) :
             \/ ClickStartNew \/ ClickBackToSetup
             \/ i \in DOMAIN Timers(ss') /\ Timers(ss')[i] = Timers(ss)[i]]_vars
    /\ [][\A i \in (DOMAIN Timers(ss')) \ (DOMAIN Timers(ss)) :
             /\ RunStep
             /\ run'.timer.index = i
             /\ Timers(ss')[i] = now]_vars
    /\ [](view = "answering" /\ run.timer.index \in DOMAIN Timers(ss) =>
             run.timer.remaining = Remaining(Timers(ss)[run.timer.index], run.timer.time,
                                             run.timer.per_question_seconds))

\* C30 at work: the first question was left for the second one, its time ran out
\* meanwhile, and the run that shows it again has locked it, its start time unchanged.
C30_Witness ==
    /\ view = "answering"
    /\ Index(ss) = 0
    /\ run.timer.index = 0
    /\ run.timer.time = now
    /\ run.timer.remaining = 0
    /\ Locked(ss, 0)
    /\ 1 \in DOMAIN Timers(ss)
    /\ Timers(ss)[0] = 0
    /\ Timers(ss)[1] = 1
    /\ ~Locked(ss, 1)

====
